---- MODULE Spec2Model ----
(***************************************************************************)
(* Model of the ST7789 display driver of src/display.py.                   *)
(*                                                                         *)
(* The driver talks to the panel through four transport calls (pin         *)
(* writes, SPI writes, sleeps).  Every method of class Display is an       *)
(* operator that yields the sequence of transport calls it makes, in       *)
(* order, interleaved with a marker for every driver method it enters.     *)
(* The variable `trace` holds that sequence for the last public call (or   *)
(* for the constructor), `self` holds the fields of the Display object.    *)
(* The module also models draw_poligon of src/libs/DisplayPlus.py and the  *)
(* rotary encoder of src/encoder.py, each under its own specification.     *)
(***************************************************************************)
EXTENDS Integers, Sequences, FiniteSets, TLC

VARIABLES self, trace, frame

vars == <<self, trace, frame>>

\* `frame` holds the locals <<x, y, color>> of a pixel call that has passed
\* its bounds test and not yet programmed its window; it is empty otherwise
NoFrame == <<>>

---------------------------------------------------------------------------
(* Bounds of the explored inputs *)

MaxLen == 3          \* longest short hline / vline / rect side
MaxR == 3            \* largest circle radius
GridMax == 3         \* line endpoints range over 0..GridMax
MaxPreempt == 1      \* set_rotation calls of a second thread inside one pixel call
MaxCount == 4        \* an unbounded encoder is turned while |value| < MaxCount
MaxEvents == 6       \* encoder calls followed from construction

---------------------------------------------------------------------------
(* src/display.py constants *)

SLPOUT == 17         \* 0x11
NORON == 19          \* 0x13
INVOFF == 32         \* 0x20
INVON == 33          \* 0x21
DISPON == 41         \* 0x29
CASET == 42          \* 0x2A
RASET == 43          \* 0x2B
RAMWR == 44          \* 0x2C
COLMOD == 58         \* 0x3A
MADCTL == 54         \* 0x36
VSCRDEF == 51        \* 0x33
VSCSAD == 55         \* 0x37

MADCTL_BGR == 8      \* 0x08
MADCTL_RGB == 0      \* 0x00

OPTIONS_WRAP == 1    \* 0x01
OPTIONS_WRAP_H == 2  \* 0x02
OPTIONS_WRAP_V == 4  \* 0x04

COLOR_MODE_16BIT == 85   \* 0x55

BLACK == 0
MAGENTA == 63519     \* 0xF81F

\* rotation tables: (madctl, width, height, xstart, ystart)
ROT_240x320 ==
  << <<0, 240, 320, 0, 0>>,
     <<96, 320, 240, 0, 0>>,
     <<192, 240, 320, 0, 0>>,
     <<160, 320, 240, 0, 0>> >>

ROT_240x240 ==
  << <<0, 240, 240, 0, 0>>,
     <<96, 240, 240, 0, 0>>,
     <<192, 240, 240, 0, 80>>,
     <<160, 240, 240, 80, 0>> >>

CHUNK == 256         \* size of the fill_rect buffer, bytearray(256)

---------------------------------------------------------------------------
(* Python integer operators on non-negative operands *)

RECURSIVE BitAnd(_, _)
BitAnd(a, b) ==
  IF a = 0 \/ b = 0 THEN 0
  ELSE (IF a % 2 = 1 /\ b % 2 = 1 THEN 1 ELSE 0) + 2 * BitAnd(a \div 2, b \div 2)

RECURSIVE BitOr(_, _)
BitOr(a, b) ==
  IF a = 0 THEN b
  ELSE IF b = 0 THEN a
  ELSE (IF a % 2 = 1 \/ b % 2 = 1 THEN 1 ELSE 0) + 2 * BitOr(a \div 2, b \div 2)

\* a >> k
Shr(a, k) == a \div (2 ^ k)

abs(a) == IF a < 0 THEN -a ELSE a

min(a, b) == IF a < b THEN a ELSE b

\* concatenation of the sequences ss[lo] .. ss[hi], in order
RECURSIVE ConcatRange(_, _, _)
ConcatRange(ss, lo, hi) ==
  IF lo > hi THEN <<>>
  ELSE IF lo = hi THEN ss[lo]
  ELSE LET mid == (lo + hi) \div 2
       IN ConcatRange(ss, lo, mid) \o ConcatRange(ss, mid + 1, hi)

Concat(ss) == ConcatRange(ss, 1, Len(ss))

---------------------------------------------------------------------------
(* Transport calls.  A write carries n bytes; byte k (from 0) is           *)
(* pat[(k mod Len(pat)) + 1], so a slice buf[:n] of the repeating fill     *)
(* buffer is written down as its length and its two-byte period.           *)

CsValue(v) == [op |-> "cs", v |-> v]
DcValue(v) == [op |-> "dc", v |-> v]
RstValue(v) == [op |-> "rst", v |-> v]
BlValue(v) == [op |-> "bl", v |-> v]
SleepMs(ms) == [op |-> "sleep_ms", v |-> ms]
SpiWrite(n, pat) == [op |-> "write", n |-> n, pat |-> pat]

\* marker: method fn was entered with arguments args, at call depth `depth`
\* below the public call (depth 0)
Enter(fn, args) == [op |-> "call", fn |-> fn, args |-> args, depth |-> 0]

\* the calls made from inside a method are one level deeper
Deeper(tr) ==
  [i \in 1..Len(tr) |->
     IF tr[i].op = "call" THEN [tr[i] EXCEPT !.depth = @ + 1] ELSE tr[i]]

\* the trace of method fn(args) whose body makes the calls `body`
Call(fn, args, body) == <<Enter(fn, args)>> \o Deeper(body)

\* bytes([b0, b1, ...])
Bytes(bs) == [n |-> Len(bs), pat |-> bs]

\* struct.pack('>H', v): MicroPython stores the low 16 bits, high byte first
pack_H(v) == << (v % 65536) \div 256, v % 256 >>

pack_HH(a, b) == pack_H(a) \o pack_H(b)

pack_HHH(a, b, c) == pack_H(a) \o pack_H(b) \o pack_H(c)

---------------------------------------------------------------------------
(* Protocol layer *)

\* variant of _cmd that leaves chip select asserted
cmd_keep_selected(c) ==
  << CsValue(0), DcValue(0), SpiWrite(1, <<c>>) >>

cmd(c) ==
  << CsValue(0), DcValue(0), SpiWrite(1, <<c>>), CsValue(1) >>

\* variant of _data that drives the data/command line low, as _cmd does
data_dc_low(b) ==
  << CsValue(0), DcValue(0), SpiWrite(b.n, b.pat), CsValue(1) >>

\* b is an int (one byte) or a bytes value [n, pat]
data(b) ==
  << CsValue(0), DcValue(1), SpiWrite(b.n, b.pat), CsValue(1) >>

data_int(v) == data(Bytes(<<v>>))

\* variant of set_rotation that keeps the previous offsets
set_rotation_keep_offsets(s, rotation) ==
  LET r == rotation % Len(s.rot_tbl)
      e == s.rot_tbl[r + 1]
      s2 == [s EXCEPT !.rotation = r, !.width = e[2], !.height = e[3]]
      val == BitOr(e[1], s.color_order)
  IN [self |-> s2,
      tr |-> Call("set_rotation", <<rotation>>,
                  << CsValue(0), DcValue(0), SpiWrite(1, <<MADCTL>>),
                     DcValue(1), SpiWrite(1, <<val>>), CsValue(1) >>)]

\* variant of set_rotation that sends the rotation byte without color_order
set_rotation_no_color_order(s, rotation) ==
  LET r == rotation % Len(s.rot_tbl)
      e == s.rot_tbl[r + 1]
      s2 == [s EXCEPT !.rotation = r, !.width = e[2], !.height = e[3],
                      !.xstart = e[4], !.ystart = e[5]]
      val == e[1]
  IN [self |-> s2,
      tr |-> Call("set_rotation", <<rotation>>,
                  << CsValue(0), DcValue(0), SpiWrite(1, <<MADCTL>>),
                     DcValue(1), SpiWrite(1, <<val>>), CsValue(1) >>)]

\* set_rotation returns the updated object and the transport calls
set_rotation(s, rotation) ==
  LET r == rotation % Len(s.rot_tbl)
      e == s.rot_tbl[r + 1]
      s2 == [s EXCEPT !.rotation = r, !.width = e[2], !.height = e[3],
                      !.xstart = e[4], !.ystart = e[5]]
      val == BitOr(e[1], s.color_order)
  IN [self |-> s2,
      tr |-> Call("set_rotation", <<rotation>>,
                  << CsValue(0), DcValue(0), SpiWrite(1, <<MADCTL>>),
                     DcValue(1), SpiWrite(1, <<val>>), CsValue(1) >>)]

rotation(s, value) ==
  LET r == set_rotation(s, value)
  IN [self |-> r.self, tr |-> Call("rotation", <<value>>, r.tr)]

\* a << k
Shl(a, k) == a * (2 ^ k)

\* the value a call returns to its caller
Return(v) == [op |-> "return", value |-> v]

\* variant of color565 that keeps only five bits of green
color565_green5(r, g, b) ==
  BitOr(BitOr(Shl(BitAnd(r, 248), 8), Shl(BitAnd(g, 248), 3)), Shr(b, 3))

color565(r, g, b) ==
  BitOr(BitOr(Shl(BitAnd(r, 248), 8), Shl(BitAnd(g, 252), 3)), Shr(b, 3))

sleep_mode(enable) ==
  Call("sleep_mode", <<enable>>, cmd(IF ~enable THEN SLPOUT ELSE SLPOUT))

inversion_mode(s, enable) ==
  [self |-> [s EXCEPT !.inversion = enable],
   tr |-> Call("inversion_mode", <<enable>>,
               cmd(IF enable THEN INVON ELSE INVOFF))]

---------------------------------------------------------------------------
(* Window and pixel-stream layer *)

\* variant of the window programming that ignores the rotation's offsets
private_set_window_no_offsets(s, x0, y0, x1, y1) ==
  Call("_set_window", <<x0, y0, x1, y1>>,
       cmd(CASET) \o data(Bytes(pack_HH(x0, x1)))
       \o cmd(RASET) \o data(Bytes(pack_HH(y0, y1)))
       \o cmd(RAMWR))

private_set_window(s, x0, y0, x1, y1) ==
  Call("_set_window", <<x0, y0, x1, y1>>,
       cmd(CASET)
       \o data(Bytes(pack_HH(x0 + s.xstart, x1 + s.xstart)))
       \o cmd(RASET)
       \o data(Bytes(pack_HH(y0 + s.ystart, y1 + s.ystart)))
       \o cmd(RAMWR))

\* variant of the fill_rect loop that sends the whole fill in one transaction
fill_rect_stream_single(total, hi, lo) ==
  IF total <= 0 THEN <<>> ELSE data([n |-> total, pat |-> <<hi, lo>>])

\* variant of the fill_rect loop that always sends the full buffer
fill_rect_stream_full_chunks(total, hi, lo) ==
  LET iters == IF total <= 0 THEN 0 ELSE (total + CHUNK - 1) \div CHUNK
  IN Concat([i \in 1..iters |-> data([n |-> CHUNK, pat |-> <<hi, lo>>])])

\* the while loop of fill_rect: iteration i (from 1) starts with
\* sent = CHUNK * (i - 1) and runs while sent < total
fill_rect_stream(total, hi, lo) ==
  LET iters == IF total <= 0 THEN 0 ELSE (total + CHUNK - 1) \div CHUNK
      chunk(i) == LET sent == CHUNK * (i - 1)
                      n == min(CHUNK, total - sent)
                  IN data([n |-> n, pat |-> <<hi, lo>>])
  IN Concat([i \in 1..iters |-> chunk(i)])

fill_rect(s, x, y, w, h, color) ==
  LET hi == BitAnd(Shr(color, 8), 255)
      lo == BitAnd(color, 255)
      total == w * h * 2
  IN Call("fill_rect", <<x, y, w, h, color>>,
          private_set_window(s, x, y, x + w - 1, y + h - 1)
          \o fill_rect_stream(total, hi, lo))

fill(s, color) ==
  Call("fill", <<color>>, fill_rect(s, 0, 0, s.width, s.height, color))

\* variant of the bounds test that accepts x = width and y = height
pixel_check_inclusive(s, x, y) ==
  LET wx == IF BitAnd(s.options, OPTIONS_WRAP_H) # 0 THEN x % s.width ELSE x
      wy == IF BitAnd(s.options, OPTIONS_WRAP_V) # 0 THEN y % s.height ELSE y
  IN [x |-> wx, y |-> wy,
      ok |-> 0 <= wx /\ wx <= s.width /\ 0 <= wy /\ wy <= s.height]

\* the first part of pixel: the wrapping and the bounds test
pixel_check(s, x, y) ==
  LET wx == IF BitAnd(s.options, OPTIONS_WRAP_H) # 0 THEN x % s.width ELSE x
      wy == IF BitAnd(s.options, OPTIONS_WRAP_V) # 0 THEN y % s.height ELSE y
  IN [x |-> wx, y |-> wy,
      ok |-> 0 <= wx /\ wx < s.width /\ 0 <= wy /\ wy < s.height]

\* the second part of pixel: the window programming and the colour bytes
pixel_draw(s, x, y, color) ==
  private_set_window(s, x, y, x, y)
  \o data(Bytes(<<BitAnd(Shr(color, 8), 255), BitAnd(color, 255)>>))

\* variant of pixel whose bounds check admits x = width and y = height
pixel_inclusive_bounds(s, x, y, color) ==
  LET wx == IF BitAnd(s.options, OPTIONS_WRAP_H) # 0 THEN x % s.width ELSE x
      wy == IF BitAnd(s.options, OPTIONS_WRAP_V) # 0 THEN y % s.height ELSE y
      hi == BitAnd(Shr(color, 8), 255)
      lo == BitAnd(color, 255)
  IN Call("pixel", <<x, y, color>>,
          IF 0 <= wx /\ wx <= s.width /\ 0 <= wy /\ wy <= s.height
          THEN private_set_window(s, wx, wy, wx, wy) \o data(Bytes(<<hi, lo>>))
          ELSE <<>>)

pixel(s, x, y, color) ==
  LET wx == IF BitAnd(s.options, OPTIONS_WRAP_H) # 0 THEN x % s.width ELSE x
      wy == IF BitAnd(s.options, OPTIONS_WRAP_V) # 0 THEN y % s.height ELSE y
      hi == BitAnd(Shr(color, 8), 255)
      lo == BitAnd(color, 255)
  IN Call("pixel", <<x, y, color>>,
          IF 0 <= wx /\ wx < s.width /\ 0 <= wy /\ wy < s.height
          THEN private_set_window(s, wx, wy, wx, wy) \o data(Bytes(<<hi, lo>>))
          ELSE <<>>)

hline(s, x, y, length, color) ==
  Call("hline", <<x, y, length, color>>,
       IF BitAnd(s.options, OPTIONS_WRAP) = 0
       THEN fill_rect(s, x, y, length, 1, color)
       ELSE Concat([i \in 1..length |-> pixel(s, x + (i - 1), y, color)]))

vline(s, x, y, length, color) ==
  Call("vline", <<x, y, length, color>>,
       IF BitAnd(s.options, OPTIONS_WRAP) = 0
       THEN fill_rect(s, x, y, 1, length, color)
       ELSE Concat([i \in 1..length |-> pixel(s, x, y + (i - 1), color)]))

---------------------------------------------------------------------------
(* Rasterizer *)

\* variant of the run emission that plots a run pixel by pixel
line_emit_pixel_by_pixel(s, steep, start, y0, length, color) ==
  Concat([k \in 1..length |->
            pixel(s, IF steep THEN y0 ELSE start + (k - 1),
                     IF steep THEN start + (k - 1) ELSE y0, color)])

\* variant of the run emission that draws a run one pixel short
line_emit_short_run(s, steep, start, y0, length, color) ==
  IF length = 1
  THEN LET px == IF steep THEN y0 ELSE start
           py == IF steep THEN start ELSE y0
       IN pixel(s, px, py, color)
  ELSE IF steep THEN vline(s, y0, start, length - 1, color)
       ELSE hline(s, start, y0, length - 1, color)

\* the run that line closes: one pixel, or one vline / hline
line_emit(s, steep, start, y0, length, color) ==
  IF length = 1
  THEN LET px == IF steep THEN y0 ELSE start
           py == IF steep THEN start ELSE y0
       IN pixel(s, px, py, color)
  ELSE IF steep THEN vline(s, y0, start, length, color)
       ELSE hline(s, start, y0, length, color)

\* the for loop of line from x on, and the run left over after it
RECURSIVE line_loop(_, _, _, _, _, _, _, _, _, _, _, _)
line_loop(s, steep, x, x1, y0, start, length, err, dx, dy, ystep, color) ==
  IF x > x1
  THEN IF length > 0 THEN line_emit(s, steep, start, y0, length, color) ELSE <<>>
  ELSE LET length1 == length + 1
           err1 == err - dy
       IN IF err1 < 0
          THEN line_emit(s, steep, start, y0, length1, color)
               \o line_loop(s, steep, x + 1, x1, y0 + ystep, x + 1, 0,
                            err1 + dx, dx, dy, ystep, color)
          ELSE line_loop(s, steep, x + 1, x1, y0, start, length1,
                         err1, dx, dy, ystep, color)

\* variant of line that does not order the endpoints along the major axis
line_no_endpoint_swap(s, ax0, ay0, ax1, ay1, color) ==
  LET steep == abs(ay1 - ay0) > abs(ax1 - ax0)
      x0 == IF steep THEN ay0 ELSE ax0
      y0 == IF steep THEN ax0 ELSE ay0
      x1 == IF steep THEN ay1 ELSE ax1
      y1 == IF steep THEN ax1 ELSE ay1
      dx == x1 - x0
      dy == abs(y1 - y0)
  IN Call("line", <<ax0, ay0, ax1, ay1, color>>,
          line_loop(s, steep, x0, x1, y0, x0, 0, dx \div 2, dx, dy,
                    IF y0 < y1 THEN 1 ELSE -1, color))

line(s, ax0, ay0, ax1, ay1, color) ==
  LET steep == abs(ay1 - ay0) > abs(ax1 - ax0)
      bx0 == IF steep THEN ay0 ELSE ax0
      by0 == IF steep THEN ax0 ELSE ay0
      bx1 == IF steep THEN ay1 ELSE ax1
      by1 == IF steep THEN ax1 ELSE ay1
      x0 == IF bx0 > bx1 THEN bx1 ELSE bx0
      x1 == IF bx0 > bx1 THEN bx0 ELSE bx1
      y0 == IF bx0 > bx1 THEN by1 ELSE by0
      y1 == IF bx0 > bx1 THEN by0 ELSE by1
      dx == x1 - x0
      dy == abs(y1 - y0)
      err == dx \div 2
      ystep == IF y0 < y1 THEN 1 ELSE -1
  IN Call("line", <<ax0, ay0, ax1, ay1, color>>,
          line_loop(s, steep, x0, x1, y0, x0, 0, err, dx, dy, ystep, color))

rect(s, x, y, w, h, color) ==
  Call("rect", <<x, y, w, h, color>>,
       hline(s, x, y, w, color)
       \o hline(s, x, y + h - 1, w, color)
       \o vline(s, x, y, h, color)
       \o vline(s, x + w - 1, y, h, color))

\* the while loop of circle
RECURSIVE circle_loop(_, _, _, _, _, _, _, _, _)
circle_loop(s, xm, ym, f, dx, dy, x, y, color) ==
  IF ~(x < y) THEN <<>>
  ELSE LET y1 == IF f >= 0 THEN y - 1 ELSE y
           dy1 == IF f >= 0 THEN dy + 2 ELSE dy
           f1 == IF f >= 0 THEN f + dy1 ELSE f
           x2 == x + 1
           dx2 == dx + 2
           f2 == f1 + dx2
       IN pixel(s, xm + x2, ym + y1, color) \o pixel(s, xm - x2, ym + y1, color)
          \o pixel(s, xm + x2, ym - y1, color) \o pixel(s, xm - x2, ym - y1, color)
          \o pixel(s, xm + y1, ym + x2, color) \o pixel(s, xm - y1, ym + x2, color)
          \o pixel(s, xm + y1, ym - x2, color) \o pixel(s, xm - y1, ym - x2, color)
          \o circle_loop(s, xm, ym, f2, dx2, dy1, x2, y1, color)

circle(s, xm, ym, r, color) ==
  Call("circle", <<xm, ym, r, color>>,
       pixel(s, xm, ym + r, color) \o pixel(s, xm, ym - r, color)
       \o pixel(s, xm + r, ym, color) \o pixel(s, xm - r, ym, color)
       \o circle_loop(s, xm, ym, 1 - r, 1, -2 * r, 0, r, color))

\* the while loop of fill_circle
RECURSIVE fill_circle_loop(_, _, _, _, _, _, _, _, _)
fill_circle_loop(s, xm, ym, f, dx, dy, x, y, color) ==
  IF ~(x < y) THEN <<>>
  ELSE LET y1 == IF f >= 0 THEN y - 1 ELSE y
           dy1 == IF f >= 0 THEN dy + 2 ELSE dy
           f1 == IF f >= 0 THEN f + dy1 ELSE f
           x2 == x + 1
           dx2 == dx + 2
           f2 == f1 + dx2
       IN vline(s, xm + x2, ym - y1, 2 * y1 + 1, color)
          \o vline(s, xm + y1, ym - x2, 2 * x2 + 1, color)
          \o vline(s, xm - x2, ym - y1, 2 * y1 + 1, color)
          \o vline(s, xm - y1, ym - x2, 2 * x2 + 1, color)
          \o fill_circle_loop(s, xm, ym, f2, dx2, dy1, x2, y1, color)

\* variant of fill_circle that draws the centre span after the loop
fill_circle_centre_last(s, xm, ym, r, color) ==
  Call("fill_circle", <<xm, ym, r, color>>,
       fill_circle_loop(s, xm, ym, 1 - r, 1, -2 * r, 0, r, color)
       \o vline(s, xm, ym - r, 2 * r + 1, color))

\* variant of fill_circle whose centre span is one pixel short
fill_circle_short_centre(s, xm, ym, r, color) ==
  Call("fill_circle", <<xm, ym, r, color>>,
       vline(s, xm, ym - r, 2 * r, color)
       \o fill_circle_loop(s, xm, ym, 1 - r, 1, -2 * r, 0, r, color))

fill_circle(s, xm, ym, r, color) ==
  Call("fill_circle", <<xm, ym, r, color>>,
       vline(s, xm, ym - r, 2 * r + 1, color)
       \o fill_circle_loop(s, xm, ym, 1 - r, 1, -2 * r, 0, r, color))

blit_buffer(s, buf, x, y, w, h) ==
  Call("blit_buffer", <<buf, x, y, w, h>>,
       private_set_window(s, x, y, x + w - 1, y + h - 1) \o data(buf))

set_window(s, x0, y0, x1, y1) ==
  Call("set_window", <<x0, y0, x1, y1>>, private_set_window(s, x0, y0, x1, y1))

scroll(s, top, scroll_h, offset) ==
  Call("scroll", <<top, scroll_h, offset>>,
       cmd(VSCRDEF)
       \o data(Bytes(pack_HHH(top, scroll_h, s.height - top - scroll_h)))
       \o cmd(VSCSAD)
       \o data(Bytes(pack_H(offset))))

---------------------------------------------------------------------------
(* Text renderer.  The font modules are glyph tables: WIDTH, HEIGHT, FIRST *)
(* and FONT, the packed rows of the glyphs, most significant bit first.    *)

font1 == [WIDTH |-> 2, HEIGHT |-> 2, FIRST |-> 65,
          FONT |-> <<128, 64, 192, 0>>]

font2 == [WIDTH |-> 3, HEIGHT |-> 2, FIRST |-> 65,
          FONT |-> <<160, 64, 32, 224>>]

font3 == [WIDTH |-> 9, HEIGHT |-> 1, FIRST |-> 65,
          FONT |-> <<129, 128, 255, 0>>]

draw_char(s, ft, ch, x, y, fg, bg) ==
  LET stride == (ft.WIDTH + 7) \div 8
      size == stride * ft.HEIGHT
      idx == (ch - ft.FIRST) * size
      colr(bi) == LET row == bi \div ft.WIDTH
                      col == bi % ft.WIDTH
                      byte == ft.FONT[idx + row * stride + col \div 8 + 1]
                      bit == 7 - (col % 8)
                      on == BitAnd(Shr(byte, bit), 1)
                  IN IF on # 0 THEN fg ELSE bg
      buf == [k \in 1..(ft.WIDTH * ft.HEIGHT * 2) |->
                LET bi == (k - 1) \div 2
                IN IF (k - 1) % 2 = 0 THEN BitAnd(Shr(colr(bi), 8), 255)
                   ELSE BitAnd(colr(bi), 255)]
  IN Call("_draw_char", <<ch, x, y, fg, bg>>,
          blit_buffer(s, Bytes(buf), x, y, ft.WIDTH, ft.HEIGHT))

\* variant of text that does not advance the pen between glyphs
text_no_advance(s, str, x, y, font, fg, bg) ==
  LET ft == IF font = 1 THEN font1 ELSE IF font = 2 THEN font2 ELSE font3
  IN Call("text", <<str, x, y, font, fg, bg>>,
          fill_rect(s, x, y, ft.WIDTH * Len(str), ft.HEIGHT, bg)
          \o Concat([i \in 1..Len(str) |-> draw_char(s, ft, str[i], x, y, fg, bg)]))

\* str is the sequence of the code points of the string
text(s, str, x, y, font, fg, bg) ==
  LET ft == IF font = 1 THEN font1 ELSE IF font = 2 THEN font2 ELSE font3
      w == ft.WIDTH * Len(str)
      h == ft.HEIGHT
  IN Call("text", <<str, x, y, font, fg, bg>>,
          fill_rect(s, x, y, w, h, bg)
          \o Concat([i \in 1..Len(str) |->
                       draw_char(s, ft, str[i], x + ft.WIDTH * (i - 1), y, fg, bg)]))

---------------------------------------------------------------------------
(* Construction *)

\* variant of __init__ that turns the display on before normal-display-on
Display_init_dispon_first(bl_pin, width, height, rot, color_order, inversion, options) ==
  LET s0 == [bl |-> bl_pin,
             color_order |-> color_order,
             inversion |-> inversion,
             options |-> options,
             rot_tbl |-> IF <<width, height>> = <<240, 320>>
                         THEN ROT_240x320 ELSE ROT_240x240,
             rotation |-> -1, width |-> -1, height |-> -1,
             xstart |-> -1, ystart |-> -1]
      r == set_rotation(s0, rot)
  IN [self |-> r.self,
      tr |-> Call("__init__",
                  <<bl_pin, width, height, rot, color_order, inversion, options>>,
                  << CsValue(1),
                     RstValue(1), SleepMs(50),
                     RstValue(0), SleepMs(50),
                     RstValue(1), SleepMs(150) >>
                  \o cmd(SLPOUT) \o <<SleepMs(120)>>
                  \o cmd(COLMOD) \o data_int(COLOR_MODE_16BIT) \o <<SleepMs(10)>>
                  \o cmd(IF inversion THEN INVON ELSE INVOFF)
                  \o cmd(DISPON) \o <<SleepMs(150)>>
                  \o cmd(NORON) \o <<SleepMs(10)>>
                  \o (IF bl_pin THEN <<BlValue(1)>> ELSE <<>>)
                  \o r.tr
                  \o fill(r.self, 0))]

\* Display.__init__: the object and the transport calls of the constructor
Display_init(bl_pin, width, height, rot, color_order, inversion, options) ==
  LET s0 == [bl |-> bl_pin,
             color_order |-> color_order,
             inversion |-> inversion,
             options |-> options,
             rot_tbl |-> IF <<width, height>> = <<240, 320>>
                         THEN ROT_240x320 ELSE ROT_240x240,
             rotation |-> -1, width |-> -1, height |-> -1,
             xstart |-> -1, ystart |-> -1]
      r == set_rotation(s0, rot)
  IN [self |-> r.self,
      tr |-> Call("__init__",
                  <<bl_pin, width, height, rot, color_order, inversion, options>>,
                  << CsValue(1),
                     RstValue(1), SleepMs(50),
                     RstValue(0), SleepMs(50),
                     RstValue(1), SleepMs(150) >>
                  \o cmd(SLPOUT) \o <<SleepMs(120)>>
                  \o cmd(COLMOD) \o data_int(COLOR_MODE_16BIT) \o <<SleepMs(10)>>
                  \o cmd(IF inversion THEN INVON ELSE INVOFF)
                  \o cmd(NORON) \o <<SleepMs(10)>>
                  \o cmd(DISPON) \o <<SleepMs(150)>>
                  \o (IF bl_pin THEN <<BlValue(1)>> ELSE <<>>)
                  \o r.tr
                  \o fill(r.self, 0))]

---------------------------------------------------------------------------
(* Inputs *)

Panels == { <<240, 320>>, <<240, 240>>, <<135, 240>> }
RotArgs == {-1, 0, 1, 4, 6}
ColorOrders == {MADCTL_RGB, MADCTL_BGR}
OptionSets == {0, OPTIONS_WRAP_H, 7}
Colors == {MAGENTA}
Lengths == 0..MaxLen
Radii == 0..MaxR
Grid == 0..GridMax
Strings == { <<>>, <<65>>, <<66, 65>> }
Buffers == { Bytes(<<1, 2, 3, 4>>), Bytes(<<1, 2>>) }

---------------------------------------------------------------------------
(* Public methods called with arguments from given sets *)

SetRotationOf(NS) ==
  \E n \in NS :
    LET r == set_rotation(self, n)
    IN self' = r.self /\ trace' = r.tr /\ UNCHANGED frame

FillRectOf(XS, YS, WS, HS) ==
  \E x \in XS, y \in YS, w \in WS, h \in HS, c \in Colors :
    trace' = fill_rect(self, x, y, w, h, c) /\ UNCHANGED <<self, frame>>

PixelOf(XS, YS) ==
  \E x \in XS, y \in YS, c \in Colors :
    trace' = pixel(self, x, y, c) /\ UNCHANGED <<self, frame>>

HLineOf(XS, YS, LS) ==
  \E x \in XS, y \in YS, length \in LS, c \in Colors :
    trace' = hline(self, x, y, length, c) /\ UNCHANGED <<self, frame>>

VLineOf(XS, YS, LS) ==
  \E x \in XS, y \in YS, length \in LS, c \in Colors :
    trace' = vline(self, x, y, length, c) /\ UNCHANGED <<self, frame>>

LineOf(X0S, Y0S, X1S, Y1S) ==
  \E x0 \in X0S, y0 \in Y0S, x1 \in X1S, y1 \in Y1S, c \in Colors :
    trace' = line(self, x0, y0, x1, y1, c) /\ UNCHANGED <<self, frame>>

RectOf(XS, YS, WS, HS) ==
  \E x \in XS, y \in YS, w \in WS, h \in HS, c \in Colors :
    trace' = rect(self, x, y, w, h, c) /\ UNCHANGED <<self, frame>>

CircleOf(XS, YS, RS) ==
  \E xm \in XS, ym \in YS, r \in RS, c \in Colors :
    trace' = circle(self, xm, ym, r, c) /\ UNCHANGED <<self, frame>>

FillCircleOf(XS, YS, RS) ==
  \E xm \in XS, ym \in YS, r \in RS, c \in Colors :
    trace' = fill_circle(self, xm, ym, r, c) /\ UNCHANGED <<self, frame>>

BlitBufferOf(BS, WS, HS) ==
  \E buf \in BS, w \in WS, h \in HS :
    trace' = blit_buffer(self, buf, 0, 0, w, h) /\ UNCHANGED <<self, frame>>

TextOf(SS, FS) ==
  \E str \in SS, font \in FS :
    trace' = text(self, str, 10, 10, font, MAGENTA, BLACK) /\ UNCHANGED <<self, frame>>

---------------------------------------------------------------------------
(* Spec: the driver with every constructor configuration and every public  *)
(* method.  Init is the object as the constructor leaves it.               *)

Init ==
  \E bl_pin \in BOOLEAN, p \in Panels, rot \in RotArgs,
     co \in ColorOrders, inv \in BOOLEAN, opt \in OptionSets :
    LET r == Display_init(bl_pin, p[1], p[2], rot, co, inv, opt)
    IN self = r.self /\ trace = r.tr /\ frame = NoFrame

SetRotation == SetRotationOf(RotArgs)

Rotation ==
  \E n \in {1} :
    LET r == rotation(self, n)
    IN self' = r.self /\ trace' = r.tr /\ UNCHANGED frame

SleepMode ==
  \E enable \in BOOLEAN :
    trace' = sleep_mode(enable) /\ UNCHANGED <<self, frame>>

InversionMode ==
  \E enable \in BOOLEAN :
    LET r == inversion_mode(self, enable)
    IN self' = r.self /\ trace' = r.tr /\ UNCHANGED frame

Scroll ==
  \E top \in {0, 20}, scroll_h \in {200}, offset \in {300} :
    trace' = scroll(self, top, scroll_h, offset) /\ UNCHANGED <<self, frame>>

SetWindow ==
  \E x0 \in {0, 5}, y0 \in {10}, x1 \in {239}, y1 \in {10, 319} :
    trace' = set_window(self, x0, y0, x1, y1) /\ UNCHANGED <<self, frame>>

Fill ==
  \E c \in Colors :
    trace' = fill(self, c) /\ UNCHANGED <<self, frame>>

FillRect == FillRectOf({0}, {10}, {3}, {0, 2})

Pixel == PixelOf({5, 245}, {10, 300})

HLine == HLineOf({5}, {10}, {1, MaxLen})

VLine == VLineOf({5}, {10}, {1, MaxLen})

Line == LineOf({0}, {0}, {GridMax}, {0, 1})

Rect == RectOf({5}, {10}, {MaxLen}, {2})

Circle == CircleOf({120}, {120}, {MaxR})

FillCircle == FillCircleOf({120}, {120}, {MaxR})

BlitBuffer == BlitBufferOf(Buffers, {1}, {1})

Text == TextOf({<<66, 65>>}, {1})

Next ==
  \/ SetRotation
  \/ Rotation
  \/ SleepMode
  \/ InversionMode
  \/ Scroll
  \/ SetWindow
  \/ Fill
  \/ FillRect
  \/ Pixel
  \/ HLine
  \/ VLine
  \/ Line
  \/ Rect
  \/ Circle
  \/ FillCircle
  \/ BlitBuffer
  \/ Text

Spec == Init /\ [][Next]_vars

---------------------------------------------------------------------------
(* SpecDraw: the drawing methods over wider argument sets, on a driver     *)
(* constructed with the default bl_pin, color_order and inversion.         *)

InitDraw ==
  \E p \in Panels, rot \in RotArgs, opt \in OptionSets :
    LET r == Display_init(FALSE, p[1], p[2], rot, MADCTL_RGB, TRUE, opt)
    IN self = r.self /\ trace = r.tr /\ frame = NoFrame

DrawSetRotation == SetRotationOf({0, 1, 6, -1})

DrawFillRect == FillRectOf({0, 238}, {10}, {0, 1, MaxLen, 43}, {0, 1, MaxLen})

DrawPixel == PixelOf({-1, 5, 240, 245}, {-1, 10, 300})

DrawHLine == HLineOf({-1, 5, 238}, {10}, Lengths)

DrawVLine == VLineOf({5}, {-1, 10, 318}, Lengths)

DrawLine == LineOf({0, 2}, {0}, {0, GridMax}, {0, 1, GridMax})

DrawRect == RectOf({-1, 5}, {10}, {0, MaxLen}, {1, 2})

DrawCircle == CircleOf({1, 120}, {120}, Radii)

DrawFillCircle == FillCircleOf({1, 120}, {120}, Radii)

DrawBlitBuffer == BlitBufferOf(Buffers, {1, 2}, {1})

DrawText == TextOf(Strings, {1, 2, 3})

NextDraw ==
  \/ DrawSetRotation
  \/ DrawFillRect
  \/ DrawPixel
  \/ DrawHLine
  \/ DrawVLine
  \/ DrawLine
  \/ DrawRect
  \/ DrawCircle
  \/ DrawFillCircle
  \/ DrawBlitBuffer
  \/ DrawText

SpecDraw == InitDraw /\ [][NextDraw]_vars

---------------------------------------------------------------------------
(* SpecLine: line over every pair of endpoints of a grid, on a driver      *)
(* constructed with the default arguments and each wrap setting.           *)

InitLine ==
  \E opt \in {0, 7} :
    LET r == Display_init(FALSE, 240, 320, 2, MADCTL_RGB, TRUE, opt)
    IN self = r.self /\ trace = r.tr /\ frame = NoFrame

GridLine == LineOf(Grid, Grid, Grid, Grid)

\* the two lines the specification names as representative cases
ExampleLine == LineOf({0}, {0}, {5}, {0, 5})

NextLine ==
  \/ GridLine
  \/ ExampleLine

SpecLine == InitLine /\ [][NextLine]_vars

---------------------------------------------------------------------------
(* SpecColor: the static method color565 over 8-bit channel values around  *)
(* the edges of the bits it keeps and drops.                               *)

Channels == {0, 4, 7, 8, 248, 252, 255}

InitColor ==
  LET r == Display_init(FALSE, 240, 320, 2, MADCTL_RGB, TRUE, 0)
  IN self = r.self /\ trace = r.tr /\ frame = NoFrame

Color565 ==
  \E r \in Channels, g \in Channels, b \in Channels :
    /\ trace' = <<Enter("color565", <<r, g, b>>), Return(color565(r, g, b))>>
    /\ UNCHANGED <<self, frame>>

NextColor == Color565

SpecColor == InitColor /\ [][NextColor]_vars

---------------------------------------------------------------------------
(* SpecRace: pixel called from one thread while a second thread may call   *)
(* set_rotation, with no mutual exclusion.  The pixel call takes two       *)
(* steps, its bounds test and its window programming, and the second       *)
(* thread's set_rotation, taken whole, may run before, between or after    *)
(* them, at most MaxPreempt times inside one pixel call.                   *)

InitRace ==
  \E p \in {<<240, 320>>, <<240, 240>>}, rot \in {0, 1}, opt \in {0, 7} :
    LET r == Display_init(FALSE, p[1], p[2], rot, MADCTL_RGB, TRUE, opt)
    IN self = r.self /\ trace = r.tr /\ frame = NoFrame

RacePixelBegin ==
  /\ frame = NoFrame
  /\ \E x \in {100, 240}, y \in {10, 300}, c \in Colors :
       LET k == pixel_check(self, x, y)
       IN /\ trace' = <<Enter("pixel", <<x, y, c>>)>>
          /\ frame' = IF k.ok THEN <<k.x, k.y, c>> ELSE NoFrame
  /\ UNCHANGED self

RacePixelEnd ==
  /\ frame # NoFrame
  /\ trace' = trace \o Deeper(pixel_draw(self, frame[1], frame[2], frame[3]))
  /\ frame' = NoFrame
  /\ UNCHANGED self

\* number of set_rotation calls that ran inside the pixel call in flight
Preemptions(tr) ==
  Cardinality({i \in 1..Len(tr) : tr[i].op = "call" /\ tr[i].fn = "set_rotation"})

RaceSetRotation ==
  /\ frame # NoFrame => Preemptions(trace) < MaxPreempt
  /\ \E n \in 0..3 :
       LET r == set_rotation(self, n)
       IN /\ self' = r.self
          /\ trace' = IF frame = NoFrame THEN r.tr ELSE trace \o r.tr
  /\ UNCHANGED frame

NextRace ==
  \/ RacePixelBegin
  \/ RacePixelEnd
  \/ RaceSetRotation

SpecRace == InitRace /\ [][NextRace]_vars

---------------------------------------------------------------------------
(* src/libs/DisplayPlus.py: draw_poligon.  Angles are whole degrees for    *)
(* the side counts explored; math.cos and math.sin are tabulated in        *)
(* thousandths at the multiples of 15 degrees, coordinates are carried as  *)
(* exact fractions and round() rounds halves to the even integer.          *)

\* 1000 * cos(deg degrees), deg a multiple of 15
Cos1000(deg) ==
  LET d == deg % 360
      a == IF d > 180 THEN 360 - d ELSE d
      b == IF a > 90 THEN 180 - a ELSE a
      c == IF b = 0 THEN 1000 ELSE IF b = 15 THEN 966 ELSE IF b = 30 THEN 866
           ELSE IF b = 45 THEN 707 ELSE IF b = 60 THEN 500
           ELSE IF b = 75 THEN 259 ELSE 0
  IN IF a > 90 THEN -c ELSE c

Sin1000(deg) == Cos1000(deg - 90)

\* round(num / den), den > 0
Round(num, den) ==
  LET q == num \div den
      r == num % den
  IN IF 2 * r < den THEN q
     ELSE IF 2 * r > den THEN q + 1
     ELSE IF q % 2 = 0 THEN q ELSE q + 1

\* angle_offset is <<>> for None, <<a>> for a given angle
poligon_offset(n, angle_offset) ==
  IF angle_offset = <<>>
  THEN (IF n % 2 = 0 THEN (360 \div n) \div 2 ELSE 90)
  ELSE angle_offset[1]

\* (dx, dy) of loop iteration i (from 0), in thousandths
poligon_vertex(cx, cy, r, n, off, i) ==
  << 1000 * cx + r * Cos1000(i * (360 \div n) - off),
     1000 * cy + r * Sin1000(i * (360 \div n) - off) >>

\* (bdx, bdy) of loop iteration i (from 0), in two-thousandths
poligon_bumped(cx, cy, r, n, off, bump, i) ==
  LET v == poligon_vertex(cx, cy, r, n, off, i)
      w == poligon_vertex(cx, cy, r, n, off, i + 1)
  IN << 2000 * cx + (v[1] + w[1] - 2000 * cx) * bump,
        2000 * cy + (v[2] + w[2] - 2000 * cy) * bump >>

\* the buffer after `iters` iterations of the loop
poligon_buf(cx, cy, r, n, off, bump, iters) ==
  [k \in 1..(2 * iters) |->
     LET i == (k - 1) \div 2
         v == poligon_vertex(cx, cy, r, n, off, i)
         b == poligon_bumped(cx, cy, r, n, off, bump, i)
     IN IF k % 2 = 1 THEN <<Round(v[1], 1000), Round(v[2], 1000)>>
        ELSE <<Round(b[1], 2000), Round(b[2], 2000)>>]

draw_poligon(cx, cy, r, n, bump, angle_offset, color, filled) ==
  LET off == poligon_offset(n, angle_offset)
      buf == poligon_buf(cx, cy, r, n, off, bump, n + 1)
  IN Call("draw_poligon", <<cx, cy, r, n, bump, angle_offset, color, filled>>,
          <<Enter(IF filled THEN "fill_polygon" ELSE "polygon", <<buf, 0, 0, color>>)>>)

\* side counts whose angle step is a whole number of degrees
Sides == {1, 2, 3, 4, 6}

InitPlus ==
  LET r == Display_init(FALSE, 240, 320, 2, MADCTL_RGB, TRUE, 0)
  IN self = r.self /\ trace = r.tr /\ frame = NoFrame

DrawPoligon ==
  \E r \in {2, 4}, n \in Sides, bump \in {1, 2},
     angle_offset \in {<<>>, <<0>>, <<90>>}, filled \in BOOLEAN :
    /\ trace' = draw_poligon(120, 160, r, n, bump, angle_offset, MAGENTA, filled)
    /\ UNCHANGED <<self, frame>>

NextPlus == DrawPoligon

SpecPlus == InitPlus /\ [][NextPlus]_vars

---------------------------------------------------------------------------
(* src/encoder.py: the rotary encoder.  In the encoder specifications      *)
(* `self` holds the fields of the Encoder object and `trace` the pin       *)
(* readings, listener calls and returns of its methods.                    *)

DIR_CW == 16         \* 0x10
DIR_CCW == 32        \* 0x20

R_START == 0
R_CW_1 == 1
R_CW_2 == 2
R_CW_3 == 3
R_CCW_1 == 4
R_CCW_2 == 5
R_CCW_3 == 6
R_ILLEGAL == 7

\* variant of the full-step table that counts a clockwise step when the pins
\* return to rest from the second phase
transition_table_short_cycle ==
  << <<R_START, R_CCW_1, R_CW_1, R_START>>,
     <<R_CW_2, R_START, R_CW_1, R_START>>,
     <<R_CW_2, R_CW_3, R_CW_1, BitOr(R_START, DIR_CW)>>,
     <<R_CW_2, R_CW_3, R_START, BitOr(R_START, DIR_CW)>>,
     <<R_CCW_2, R_CCW_1, R_START, R_START>>,
     <<R_CCW_2, R_CCW_1, R_CCW_3, R_START>>,
     <<R_CCW_2, R_START, R_CCW_3, BitOr(R_START, DIR_CCW)>>,
     <<R_START, R_START, R_START, R_START>> >>

\* rows are indexed by state + 1, columns by clk_dt_pins + 1
transition_table ==
  << <<R_START, R_CCW_1, R_CW_1, R_START>>,
     <<R_CW_2, R_START, R_CW_1, R_START>>,
     <<R_CW_2, R_CW_3, R_CW_1, R_START>>,
     <<R_CW_2, R_CW_3, R_START, BitOr(R_START, DIR_CW)>>,
     <<R_CCW_2, R_CCW_1, R_START, R_START>>,
     <<R_CCW_2, R_CCW_1, R_CCW_3, R_START>>,
     <<R_CCW_2, R_START, R_CCW_3, BitOr(R_START, DIR_CCW)>>,
     <<R_START, R_START, R_START, R_START>> >>

transition_table_half_step ==
  << <<R_CW_3, R_CW_2, R_CW_1, R_START>>,
     <<BitOr(R_CW_3, DIR_CCW), R_START, R_CW_1, R_START>>,
     <<BitOr(R_CW_3, DIR_CW), R_CW_2, R_START, R_START>>,
     <<R_CW_3, R_CCW_2, R_CCW_1, R_START>>,
     <<R_CW_3, R_CW_2, R_CCW_1, BitOr(R_START, DIR_CW)>>,
     <<R_CW_3, R_CCW_2, R_CW_3, BitOr(R_START, DIR_CCW)>>,
     <<R_START, R_START, R_START, R_START>>,
     <<R_START, R_START, R_START, R_START>> >>

STATE_MASK == 7
DIR_MASK == 48

SLOT_MAP ==
  [A |-> <<0, 1>>, B |-> <<2, 3>>, C |-> <<28, 22>>, D |-> <<4, 5>>,
   E |-> <<6, 7>>, F |-> <<26, 27>>]

RANGE_UNBOUNDED == 1
RANGE_WRAP == 2
RANGE_BOUNDED == 3

\* _wrap: // and % round towards minus infinity, as \div and % do
private_wrap(value, incr, lower_bound, upper_bound) ==
  LET range == upper_bound - lower_bound + 1
      v == value + incr
      w == IF v < lower_bound
           THEN v + range * ((lower_bound - v) \div range + 1)
           ELSE v
  IN lower_bound + ((w - lower_bound) % range)

max(a, b) == IF a > b THEN a ELSE b

private_bound(value, incr, lower_bound, upper_bound) ==
  min(upper_bound, max(lower_bound, value + incr))

\* a reading of the clk and dt pins
PinValues(clk, dt) == [op |-> "pins", clk |-> clk, dt |-> dt]

\* a listener was called
Listener(l) == [op |-> "listener", v |-> l]

Encoder_init(slot, min_val, max_val, incr, reverse, range_mode, half_step, invert, irq) ==
  [self |-> [clk_pin |-> SLOT_MAP[slot][1], dt_pin |-> SLOT_MAP[slot][2],
             min_val |-> min_val, max_val |-> max_val, incr |-> incr,
             reverse |-> IF reverse THEN -1 ELSE 1,
             range_mode |-> range_mode, value |-> min_val, state |-> R_START,
             half_step |-> half_step, invert |-> invert, listener |-> <<>>,
             direction |-> 0, simulate_mode |-> ~irq],
   tr |-> <<Enter("__init__", <<slot, min_val, max_val, incr, reverse,
                               range_mode, half_step, invert>>)>>]

\* _read_encoder with the pins reading clk, dt; returns the object and
\* whether a step was decoded
read_encoder(s, clk, dt) ==
  LET raw == 2 * clk + dt
      clk_dt_pins == IF s.invert THEN 3 - raw ELSE raw
      tbl == IF s.half_step THEN transition_table_half_step ELSE transition_table
      state == tbl[BitAnd(s.state, STATE_MASK) + 1][clk_dt_pins + 1]
      direction == BitAnd(state, DIR_MASK)
      incr == (IF direction = DIR_CW THEN s.incr
               ELSE IF direction = DIR_CCW THEN -s.incr ELSE 0) * s.reverse
      value == IF s.range_mode = RANGE_WRAP
               THEN private_wrap(s.value, incr, s.min_val, s.max_val)
               ELSE IF s.range_mode = RANGE_BOUNDED
               THEN private_bound(s.value, incr, s.min_val, s.max_val)
               ELSE s.value + incr
  IN [self |-> [s EXCEPT !.state = state, !.value = value,
                         !.direction = IF direction = DIR_CW THEN 1
                                       ELSE IF direction = DIR_CCW THEN -1
                                       ELSE @],
      updated |-> direction # 0]

\* _process_rotary_pins with the pins reading clk, dt
process_rotary_pins(s, clk, dt) ==
  LET r == read_encoder(s, clk, dt)
  IN [self |-> r.self,
      tr |-> Call("_process_rotary_pins", <<>>,
                  <<PinValues(clk, dt)>>
                  \o (IF r.updated /\ s.listener # <<>>
                      THEN [k \in 1..Len(s.listener) |-> Listener(s.listener[k])]
                      ELSE <<>>))]

\* value(), the pins reading clk, dt if it polls them
encoder_value(s, clk, dt) ==
  LET r == IF s.simulate_mode THEN process_rotary_pins(s, clk, dt)
           ELSE [self |-> s, tr |-> <<>>]
  IN [self |-> r.self,
      tr |-> Call("value", <<>>,
                  (IF s.simulate_mode THEN <<SleepMs(2)>> ELSE <<>>)
                  \o r.tr \o <<Return(r.self.value)>>)]

encoder_reset(s) ==
  [self |-> [s EXCEPT !.value = 0], tr |-> <<Enter("reset", <<>>)>>]

add_listener(s, l) ==
  [self |-> [s EXCEPT !.listener = Append(@, l)],
   tr |-> <<Enter("add_listener", <<l>>)>>]

\* the calls made on the object so far
Events(tr) == Cardinality({i \in 1..Len(tr) : tr[i].op = "call" /\ tr[i].depth = 0})

\* the encoder can still be turned within the explored range
Turnable(s) == s.range_mode = RANGE_UNBOUNDED => abs(s.value) < MaxCount

\* with keep = TRUE the trace is kept from construction on, up to MaxEvents
\* calls; with keep = FALSE it is the trace of the last call
Logged(keep, tr) == IF keep THEN trace \o tr ELSE tr

EncoderValueOf(keep) ==
  /\ Turnable(self)
  /\ keep => Events(trace) <= MaxEvents
  /\ \E clk \in 0..1, dt \in 0..1 :
       LET r == encoder_value(self, clk, dt)
       IN self' = r.self /\ trace' = Logged(keep, r.tr)
  /\ UNCHANGED frame

\* the pin interrupt; the pins read clk, dt when the handler runs
EncoderIrqOf(keep) ==
  /\ ~self.simulate_mode
  /\ Turnable(self)
  /\ keep => Events(trace) <= MaxEvents
  /\ \E clk \in 0..1, dt \in 0..1 :
       LET r == process_rotary_pins(self, clk, dt)
       IN self' = r.self /\ trace' = Logged(keep, r.tr)
  /\ UNCHANGED frame

EncoderResetOf(keep) ==
  /\ keep => Events(trace) <= MaxEvents
  /\ LET r == encoder_reset(self)
     IN self' = r.self /\ trace' = Logged(keep, r.tr)
  /\ UNCHANGED frame

AddListenerOf(keep) ==
  /\ self.listener = <<>>
  /\ keep => Events(trace) <= MaxEvents
  /\ LET r == add_listener(self, "l")
     IN self' = r.self /\ trace' = Logged(keep, r.tr)
  /\ UNCHANGED frame

---------------------------------------------------------------------------
(* SpecEncoder: every configuration of the encoder, turned, polled and     *)
(* reset in any order.                                                     *)

Ranges == { <<0, 2>>, <<2, 4>> }

InitEncoder ==
  \E rg \in Ranges, incr \in {1, 2}, reverse \in BOOLEAN,
     range_mode \in {RANGE_UNBOUNDED, RANGE_WRAP, RANGE_BOUNDED},
     half_step \in BOOLEAN, invert \in BOOLEAN, irq \in BOOLEAN :
    LET r == Encoder_init("C", rg[1], rg[2], incr, reverse, range_mode,
                          half_step, invert, irq)
    IN self = r.self /\ trace = r.tr /\ frame = NoFrame

EncoderValue == EncoderValueOf(FALSE)

EncoderIrq == EncoderIrqOf(FALSE)

EncoderReset == EncoderResetOf(FALSE)

AddListener == AddListenerOf(FALSE)

NextEncoder ==
  \/ EncoderValue
  \/ EncoderIrq
  \/ EncoderReset
  \/ AddListener

SpecEncoder == InitEncoder /\ [][NextEncoder]_vars

---------------------------------------------------------------------------
(* SpecQuad: a full-step encoder followed from construction, the trace     *)
(* keeping every pin reading and listener call of up to MaxEvents calls.   *)

InitQuad ==
  \E rg \in Ranges, irq \in BOOLEAN,
     cfg \in { <<RANGE_UNBOUNDED, FALSE>>, <<RANGE_WRAP, TRUE>>,
               <<RANGE_BOUNDED, FALSE>> } :
    LET r == Encoder_init("C", rg[1], rg[2], 1, cfg[2], cfg[1], FALSE, FALSE, irq)
    IN self = r.self /\ trace = r.tr /\ frame = NoFrame

QuadValue == EncoderValueOf(TRUE)

QuadIrq == EncoderIrqOf(TRUE)

QuadAddListener == AddListenerOf(TRUE)

NextQuad ==
  \/ QuadValue
  \/ QuadIrq
  \/ QuadAddListener

SpecQuad == InitQuad /\ [][NextQuad]_vars

---------------------------------------------------------------------------
(* Reading a trace as the panel sees it *)

\* level of pin `pin` just before position i (-1: not driven in this trace)
RECURSIVE LevelBefore(_, _, _)
LevelBefore(tr, i, pin) ==
  IF i <= 1 THEN -1
  ELSE IF tr[i - 1].op = pin THEN tr[i - 1].v
  ELSE LevelBefore(tr, i - 1, pin)

\* position of the last chip-select change before position i (0: none)
RECURSIVE LastCsBefore(_, _)
LastCsBefore(tr, i) ==
  IF i <= 1 THEN 0
  ELSE IF tr[i - 1].op = "cs" THEN i - 1
  ELSE LastCsBefore(tr, i - 1)

\* the select bracket a write sits in: the position of the select-assert
\* that opened it, 0 when chip select is not asserted
Bracket(tr, i) ==
  LET k == LastCsBefore(tr, i)
  IN IF k > 0 /\ tr[k].v = 0 THEN k ELSE 0

\* position of the first write after position i (0: none)
RECURSIVE NextWrite(_, _)
NextWrite(tr, i) ==
  IF i >= Len(tr) THEN 0
  ELSE IF tr[i + 1].op = "write" THEN i + 1
  ELSE NextWrite(tr, i + 1)

\* position of the first write or chip-select change after position i
RECURSIVE NextWriteOrCs(_, _)
NextWriteOrCs(tr, i) ==
  IF i >= Len(tr) THEN 0
  ELSE IF tr[i + 1].op \in {"write", "cs"} THEN i + 1
  ELSE NextWriteOrCs(tr, i + 1)

IsCommand(tr, i) == tr[i].op = "write" /\ LevelBefore(tr, i, "dc") = 0
IsData(tr, i) == tr[i].op = "write" /\ LevelBefore(tr, i, "dc") = 1
Commands(tr) == {i \in 1..Len(tr) : IsCommand(tr, i)}
Opcode(tr, i) == tr[i].pat[1]
CallsOf(tr, fn) == {i \in 1..Len(tr) : tr[i].op = "call" /\ tr[i].fn = fn}

\* the k-th smallest element of a set of positions
Nth(S, k) == CHOOSE i \in S : Cardinality({j \in S : j < i}) = k - 1

\* sum of F over the positions lo..hi
RECURSIVE SumRange(_, _, _)
SumRange(F(_), lo, hi) ==
  IF lo > hi THEN 0
  ELSE IF lo = hi THEN F(lo)
  ELSE LET mid == (lo + hi) \div 2
       IN SumRange(F, lo, mid) + SumRange(F, mid + 1, hi)

\* big-endian 16-bit encoding
Be16(v) == << (v \div 256) % 256, v % 256 >>

TopCall == trace[1]

Geometry(s) == <<s.rotation, s.width, s.height, s.xstart, s.ystart>>

---------------------------------------------------------------------------
(* C1: the stored rotation index is (last requested n) mod 4, the geometry *)
(* fields are fields 2..5 of the rotation table entry at that index, and   *)
(* no operation other than set_rotation changes them; set_rotation(0) and  *)
(* set_rotation(4) leave the same geometry.                                *)

C1_Geometry ==
  /\ self.rotation \in 0..3
  /\ LET e == self.rot_tbl[self.rotation + 1]
     IN <<self.width, self.height, self.xstart, self.ystart>>
          = <<e[2], e[3], e[4], e[5]>>
  /\ TopCall.fn = "__init__" => self.rotation = TopCall.args[4] % 4
  /\ TopCall.fn \in {"set_rotation", "rotation"}
       => self.rotation = TopCall.args[1] % 4
  /\ (TopCall.fn = "set_rotation" /\ TopCall.args[1] \in {0, 4})
       => Geometry(self) = <<0>> \o SubSeq(self.rot_tbl[1], 2, 5)

C1_Step ==
  trace'[1].fn \notin {"set_rotation", "rotation"}
    => Geometry(self') = Geometry(self)

\* C1: the geometry is always that of the table entry at (last requested n)
\* mod 4, and only set_rotation changes it
C1_RotationGeometry == [](C1_Geometry) /\ [][C1_Step]_vars

C1_Witness ==
  /\ TopCall.fn = "set_rotation"
  /\ TopCall.args[1] = -1
  /\ Geometry(self) = <<3, 240, 240, 80, 0>>

---------------------------------------------------------------------------
(* C2: every set_rotation(n) writes the MADCTL command byte 0x36 and then  *)
(* exactly one data byte, (rotation byte of entry n mod 4) OR color_order, *)
(* both inside one select bracket; a 240x320 panel constructed with        *)
(* rotation 1 ends as 320x240 with offsets 0, 0 and has sent 0x60 OR       *)
(* color_order.                                                            *)

MadctlTransaction(tr, m, byte) ==
  LET w1 == NextWrite(tr, m)
      w2 == NextWrite(tr, w1)
      k == NextWriteOrCs(tr, w2)
  IN /\ w1 # 0 /\ w2 # 0 /\ k # 0
     /\ IsCommand(tr, w1) /\ tr[w1].n = 1 /\ Opcode(tr, w1) = 54
     /\ IsData(tr, w2) /\ tr[w2].n = 1 /\ Len(tr[w2].pat) = 1
     /\ tr[w2].pat[1] = byte
     /\ Bracket(tr, w1) # 0 /\ Bracket(tr, w1) = Bracket(tr, w2)
     /\ tr[k] = CsValue(1)

\* C2: every set_rotation sends 0x36 and (rotation byte OR color_order) in
\* one select bracket
C2_Madctl ==
  /\ \A m \in CallsOf(trace, "set_rotation") :
       MadctlTransaction(trace, m,
         BitOr(self.rot_tbl[(trace[m].args[1] % 4) + 1][1], self.color_order))
  /\ (/\ TopCall.fn = "__init__"
      /\ <<TopCall.args[2], TopCall.args[3]>> = <<240, 320>>
      /\ TopCall.args[4] = 1)
       => /\ <<self.width, self.height, self.xstart, self.ystart>>
               = <<320, 240, 0, 0>>
          /\ \E m \in CallsOf(trace, "set_rotation") :
               MadctlTransaction(trace, m, BitOr(96, self.color_order))

C2_Witness ==
  /\ TopCall.fn = "__init__"
  /\ <<TopCall.args[2], TopCall.args[3], TopCall.args[4]>> = <<240, 320, 1>>
  /\ self.color_order = MADCTL_BGR
  /\ self.width = 320

---------------------------------------------------------------------------
(* C3: for every command that carries data bytes, select is deasserted     *)
(* after the command byte and asserted again before the data bytes.        *)

\* the command at position i is followed by data in another select bracket
SeparateData(tr, i) ==
  LET d == NextWrite(tr, i)
  IN /\ d # 0 /\ IsData(tr, d)
     /\ Bracket(tr, i) # 0
     /\ Bracket(tr, d) > i
     /\ \E k \in (i + 1)..(Bracket(tr, d) - 1) : tr[k] = CsValue(1)

\* the claim as stated, orientation-control (0x36) included
C3_Original ==
  \A i \in Commands(trace) :
    Opcode(trace, i) \in {58, 42, 43, 54, 51, 55} => SeparateData(trace, i)

\* C3 as amended: it holds of color-mode-set, column-address-set,
\* row-address-set, vertical-scroll-definition and vertical-scroll-address;
\* orientation-control is the exception, sent with its data byte in one
\* select bracket
C3_SeparateTransactions ==
  \A i \in Commands(trace) :
    /\ Opcode(trace, i) \in {58, 42, 43, 51, 55} => SeparateData(trace, i)
    /\ Opcode(trace, i) = 54
         => LET d == NextWrite(trace, i)
            IN d # 0 /\ IsData(trace, d) /\ Bracket(trace, d) = Bracket(trace, i)

C3_Witness ==
  /\ TopCall.fn = "scroll"
  /\ \E i \in Commands(trace) : Opcode(trace, i) = 51
  /\ \E i \in Commands(trace) : Opcode(trace, i) = 55

---------------------------------------------------------------------------
(* C4: the constructor pulses reset high, low, high (low for at least      *)
(* 50 ms, at least 150 ms after release) before the first command, then    *)
(* sends sleep-out, color-mode-set with data 0x55, inversion on or off as  *)
(* configured, normal-display-on, display-on, switches the backlight on if *)
(* one is wired, sends the orientation-control transaction of the          *)
(* requested rotation and fills the whole active area with 0x0000, with no *)
(* other command in between.                                               *)

SleepAt(i) == IF trace[i].op = "sleep_ms" THEN trace[i].v ELSE 0
WrittenAt(i) == IF trace[i].op = "write" THEN trace[i].n ELSE 0

\* C4: reset pulse with its hold times, then the fixed command order of the
\* constructor
C4_InitSequence ==
  TopCall.fn = "__init__" =>
    LET a == TopCall.args
        first == NextWrite(trace, 1)
        rsts == {i \in 1..Len(trace) : trace[i].op = "rst"}
        bls == {i \in 1..Len(trace) : trace[i].op = "bl"}
        cmds == Commands(trace)
        K(k) == Nth(cmds, k)
    IN /\ Cardinality(rsts) = 3
       /\ trace[Nth(rsts, 1)].v = 1
       /\ trace[Nth(rsts, 2)].v = 0
       /\ trace[Nth(rsts, 3)].v = 1
       /\ Nth(rsts, 3) < first
       /\ SumRange(SleepAt, Nth(rsts, 2), Nth(rsts, 3)) >= 50
       /\ SumRange(SleepAt, Nth(rsts, 3), first) >= 150
       /\ Cardinality(cmds) = 9
       /\ [k \in 1..9 |-> Opcode(trace, K(k))]
            = <<17, 58, IF a[6] THEN 33 ELSE 32, 19, 41, 54, 42, 43, 44>>
       /\ \A k \in 1..9 : trace[K(k)].n = 1
       /\ LET d == NextWrite(trace, K(2))
          IN IsData(trace, d) /\ d < K(3) /\ trace[d].n = 1 /\ trace[d].pat = <<85>>
       /\ NextWrite(trace, K(1)) = K(2) /\ NextWrite(trace, K(3)) = K(4)
       /\ NextWrite(trace, K(4)) = K(5) /\ NextWrite(trace, K(5)) = K(6)
       /\ IF a[1]
          THEN \E b \in bls : bls = {b} /\ trace[b].v = 1 /\ K(5) < b /\ b < K(6)
          ELSE bls = {}
       /\ \E m \in CallsOf(trace, "set_rotation") :
            /\ NextWrite(trace, m) = K(6)
            /\ MadctlTransaction(trace, m,
                 BitOr(self.rot_tbl[(a[4] % 4) + 1][1], a[5]))
       /\ LET d == NextWrite(trace, K(7))
          IN /\ IsData(trace, d) /\ d < K(8) /\ trace[d].n = 4
             /\ trace[d].pat = Be16(self.xstart) \o Be16(self.width - 1 + self.xstart)
       /\ LET d == NextWrite(trace, K(8))
          IN /\ IsData(trace, d) /\ d < K(9) /\ trace[d].n = 4
             /\ trace[d].pat = Be16(self.ystart) \o Be16(self.height - 1 + self.ystart)
       /\ \A i \in (K(9) + 1)..Len(trace) :
            trace[i].op = "write" => IsData(trace, i) /\ trace[i].pat = <<0, 0>>
       /\ SumRange(WrittenAt, K(9) + 1, Len(trace)) = self.width * self.height * 2

C4_Witness ==
  /\ TopCall.fn = "__init__"
  /\ TopCall.args = <<TRUE, 240, 240, 6, MADCTL_BGR, FALSE, 0>>
  /\ Len(trace) > 1000

---------------------------------------------------------------------------
(* Windows and calls of a trace *)

DrawingCalls ==
  {"fill", "fill_rect", "pixel", "hline", "vline", "line", "rect",
   "circle", "fill_circle", "blit_buffer", "text"}

\* the calls the public method makes itself, in order of position
Direct(tr) == {i \in 1..Len(tr) : tr[i].op = "call" /\ tr[i].depth = 1}

\* position of the memory-write command of the window set at marker m
RamwrOf(tr, m) ==
  NextWrite(tr, NextWrite(tr, NextWrite(tr, NextWrite(tr, NextWrite(tr, m)))))

\* number of data transactions between the memory-write at position i and
\* the next column-address-set
DataAfter(tr, i) ==
  LET later == {j \in Commands(tr) : j > i /\ Opcode(tr, j) = 42}
      stop == IF later = {} THEN Len(tr) + 1
              ELSE CHOOSE j \in later : \A k \in later : j <= k
  IN Cardinality({d \in (i + 1)..(stop - 1) : IsData(tr, d)})

HasBit(v, b) == (v \div b) % 2 = 1

---------------------------------------------------------------------------
(* C5: after every window-set sequence issued by a drawing operation,      *)
(* exactly one data transaction occurs before the next window-set.         *)

\* the claim as stated
C5_Original ==
  TopCall.fn \in DrawingCalls =>
    \A i \in Commands(trace) :
      Opcode(trace, i) = 44 => DataAfter(trace, i) = 1

\* C5 as amended: a window set by pixel or blit_buffer is followed by
\* exactly one data transaction; a window set by fill_rect(x, y, w, h) is
\* followed by ceil(2*w*h / 256) of them: one for 1..128 pixels, several
\* for more than 128 pixels, none when w*h is zero
C5_DataPerWindow ==
  TopCall.fn \in DrawingCalls =>
    \A m \in CallsOf(trace, "_set_window") :
      LET caller == trace[m - 1]
          r == RamwrOf(trace, m)
      IN /\ caller.op = "call" /\ caller.fn \in {"pixel", "blit_buffer", "fill_rect"}
         /\ r # 0 /\ IsCommand(trace, r) /\ Opcode(trace, r) = 44
         /\ caller.fn \in {"pixel", "blit_buffer"} => DataAfter(trace, r) = 1
         /\ caller.fn = "fill_rect" =>
              LET px == caller.args[3] * caller.args[4]
              IN DataAfter(trace, r)
                   = IF px <= 0 THEN 0 ELSE (2 * px + 255) \div 256

C5_Witness ==
  /\ TopCall.fn = "fill_rect"
  /\ TopCall.args[3] * TopCall.args[4] = 129
  /\ \E i \in Commands(trace) : Opcode(trace, i) = 44 /\ DataAfter(trace, i) = 2

---------------------------------------------------------------------------
(* C6: for w, h >= 0, fill_rect(x, y, w, h, color) sets one window for     *)
(* (x, y, x+w-1, y+h-1) and then streams data transactions of at most 256  *)
(* bytes that together are w*h repetitions of (color high byte, color low  *)
(* byte): w*h*2 bytes, no pixel split across transactions.                 *)

C6_FillRectStream ==
  (TopCall.fn = "fill_rect" /\ TopCall.args[3] >= 0 /\ TopCall.args[4] >= 0) =>
    LET x == TopCall.args[1]
        y == TopCall.args[2]
        w == TopCall.args[3]
        h == TopCall.args[4]
        c == TopCall.args[5]
        cmds == Commands(trace)
        K(k) == Nth(cmds, k)
    IN /\ Cardinality(cmds) = 3
       /\ [k \in 1..3 |-> Opcode(trace, K(k))] = <<42, 43, 44>>
       /\ LET d == NextWrite(trace, K(1))
          IN /\ IsData(trace, d) /\ d < K(2) /\ trace[d].n = 4
             /\ trace[d].pat = Be16(x + self.xstart) \o Be16(x + w - 1 + self.xstart)
       /\ LET d == NextWrite(trace, K(2))
          IN /\ IsData(trace, d) /\ d < K(3) /\ trace[d].n = 4
             /\ trace[d].pat = Be16(y + self.ystart) \o Be16(y + h - 1 + self.ystart)
       /\ NextWrite(trace, NextWrite(trace, K(2))) = K(3)
       /\ \A i \in (K(3) + 1)..Len(trace) :
            trace[i].op = "write" =>
              /\ IsData(trace, i) /\ Bracket(trace, i) # 0
              /\ trace[i].n <= 256 /\ trace[i].n > 0 /\ trace[i].n % 2 = 0
              /\ trace[i].pat = <<(c \div 256) % 256, c % 256>>
       /\ SumRange(WrittenAt, K(3) + 1, Len(trace)) = w * h * 2

C6_Witness ==
  /\ TopCall.fn = "fill_rect"
  /\ TopCall.args[3] = 43 /\ TopCall.args[4] = 3
  /\ \E i \in 1..Len(trace) : trace[i].op = "write" /\ trace[i].n = 256
  /\ \E i \in 1..Len(trace) : trace[i].op = "write" /\ trace[i].n = 2

---------------------------------------------------------------------------
(* C7: pixel(x, y, c) takes x mod width under horizontal wrap and y mod    *)
(* height under vertical wrap; a point then outside the active area makes  *)
(* no transport call and changes no state; otherwise there is one          *)
(* window-set for (x, y, x, y) and one data transaction of the two bytes   *)
(* of c, high byte first.  With horizontal wrap and width 240,             *)
(* pixel(245, 10, c) equals pixel(5, 10, c) on the bus; without wrap it    *)
(* makes no transport call.                                                *)

C7_Step ==
  trace'[1].fn = "pixel" =>
    LET tr == trace'
        x == tr[1].args[1]
        y == tr[1].args[2]
        c == tr[1].args[3]
        wx == IF HasBit(self.options, 2) THEN x % self.width ELSE x
        wy == IF HasBit(self.options, 4) THEN y % self.height ELSE y
        cmds == Commands(tr)
        K(k) == Nth(cmds, k)
        writes == {i \in 1..Len(tr) : tr[i].op = "write"}
    IN /\ self' = self
       /\ IF wx < 0 \/ wx >= self.width \/ wy < 0 \/ wy >= self.height
          THEN Len(tr) = 1
          ELSE /\ Cardinality(cmds) = 3 /\ Cardinality(writes) = 6
               /\ [k \in 1..3 |-> Opcode(tr, K(k))] = <<42, 43, 44>>
               /\ LET d == NextWrite(tr, K(1))
                  IN /\ IsData(tr, d) /\ d < K(2) /\ tr[d].n = 4
                     /\ tr[d].pat = Be16(wx + self.xstart) \o Be16(wx + self.xstart)
               /\ LET d == NextWrite(tr, K(2))
                  IN /\ IsData(tr, d) /\ d < K(3) /\ tr[d].n = 4
                     /\ tr[d].pat = Be16(wy + self.ystart) \o Be16(wy + self.ystart)
               /\ LET d == NextWrite(tr, K(3))
                  IN /\ IsData(tr, d) /\ tr[d].n = 2
                     /\ tr[d].pat = <<(c \div 256) % 256, c % 256>>
       /\ (self.width = 240 /\ <<x, y>> = <<245, 10>>) =>
            IF HasBit(self.options, 2)
            THEN Tail(tr) = Tail(pixel(self, 5, 10, c)) /\ Len(tr) > 1
            ELSE Len(tr) = 1

\* C7: every pixel call wraps, drops an outside point without a transport
\* call, or sends one window-set and one two-byte data transaction
C7_Pixel == [][C7_Step]_vars

C7_Witness ==
  /\ TopCall.fn = "pixel"
  /\ <<TopCall.args[1], TopCall.args[2]>> = <<245, 10>>
  /\ self.options = OPTIONS_WRAP_H
  /\ self.width = 240
  /\ Len(trace) > 1

---------------------------------------------------------------------------
(* C8: hline and vline issue exactly one fill_rect of thickness 1 (one     *)
(* window-set) when no wrap option is set, and whenever wrap-horizontal    *)
(* and/or wrap-vertical is set they issue exactly `length` pixel calls,    *)
(* one per point of the line.                                              *)

C8_Original ==
  TopCall.fn \in {"hline", "vline"} =>
    LET x == TopCall.args[1]
        y == TopCall.args[2]
        length == TopCall.args[3]
        c == TopCall.args[4]
        horizontal == TopCall.fn = "hline"
        calls == Direct(trace)
        wrap == HasBit(self.options, 2) \/ HasBit(self.options, 4)
    IN IF ~wrap
       THEN /\ Cardinality(calls) = 1
            /\ \A i \in calls :
                 /\ trace[i].fn = "fill_rect"
                 /\ trace[i].args = IF horizontal THEN <<x, y, length, 1, c>>
                                    ELSE <<x, y, 1, length, c>>
            /\ Cardinality(CallsOf(trace, "_set_window")) = 1
       ELSE /\ Cardinality(calls) = length
            /\ \A k \in 1..length :
                 LET i == Nth(calls, k)
                 IN /\ trace[i].fn = "pixel"
                    /\ trace[i].args = IF horizontal THEN <<x + k - 1, y, c>>
                                       ELSE <<x, y + k - 1, c>>

---------------------------------------------------------------------------
(* C9: whatever the coordinates, sizes and radii passed to pixel, hline,   *)
(* vline, line, rect, circle or fill_circle, every window the call         *)
(* programs lies inside [0, width-1] x [0, height-1].                      *)

C9_Original ==
  TopCall.fn \in {"pixel", "hline", "vline", "line", "rect", "circle", "fill_circle"} =>
    \A m \in CallsOf(trace, "_set_window") :
      LET a == trace[m].args
      IN /\ 0 <= a[1] /\ a[1] <= self.width - 1
         /\ 0 <= a[3] /\ a[3] <= self.width - 1
         /\ 0 <= a[2] /\ a[2] <= self.height - 1
         /\ 0 <= a[4] /\ a[4] <= self.height - 1

---------------------------------------------------------------------------
(* C10: the pixels covered by the pixel / hline / vline calls that         *)
(* line(x0, y0, x1, y1, c) makes are the pixels of the reference integer   *)
(* Bresenham enumeration; they include both endpoints and number           *)
(* max(|dx|, |dy|) + 1.                                                    *)

\* reference enumeration from major coordinate x on
RECURSIVE Bresenham(_, _, _, _, _, _, _, _)
Bresenham(steep, x, x1, y, err, dx, dy, ystep) ==
  IF x > x1 THEN {}
  ELSE {IF steep THEN <<y, x>> ELSE <<x, y>>}
       \cup (IF err - dy < 0
             THEN Bresenham(steep, x + 1, x1, y + ystep, err - dy + dx, dx, dy, ystep)
             ELSE Bresenham(steep, x + 1, x1, y, err - dy, dx, dy, ystep))

Reference(ax0, ay0, ax1, ay1) ==
  LET steep == abs(ay1 - ay0) > abs(ax1 - ax0)
      p == IF steep THEN <<ay0, ax0>> ELSE <<ax0, ay0>>
      q == IF steep THEN <<ay1, ax1>> ELSE <<ax1, ay1>>
      a == IF p[1] <= q[1] THEN p ELSE q
      b == IF p[1] <= q[1] THEN q ELSE p
      dx == b[1] - a[1]
      dy == abs(b[2] - a[2])
  IN Bresenham(steep, a[1], b[1], a[2], dx \div 2, dx, dy,
               IF b[2] > a[2] THEN 1 ELSE IF b[2] < a[2] THEN -1 ELSE 0)

\* pixels a pixel / hline / vline call is asked to cover
Covers(e) ==
  IF e.fn = "pixel" THEN {<<e.args[1], e.args[2]>>}
  ELSE IF e.fn = "hline"
       THEN {<<e.args[1] + k, e.args[2]>> : k \in 0..(e.args[3] - 1)}
  ELSE IF e.fn = "vline"
       THEN {<<e.args[1], e.args[2] + k>> : k \in 0..(e.args[3] - 1)}
  ELSE {}

\* C10: the calls of line cover exactly the reference Bresenham pixels
C10_LineIsBresenham ==
  TopCall.fn = "line" =>
    LET a == TopCall.args
        covered == UNION {Covers(trace[i]) : i \in Direct(trace)}
        adx == abs(a[3] - a[1])
        ady == abs(a[4] - a[2])
    IN /\ \A i \in Direct(trace) : trace[i].fn \in {"pixel", "hline", "vline"}
       /\ covered = Reference(a[1], a[2], a[3], a[4])
       /\ <<a[1], a[2]>> \in covered
       /\ <<a[3], a[4]>> \in covered
       /\ Cardinality(covered) = (IF adx > ady THEN adx ELSE ady) + 1

C10_Witness ==
  /\ TopCall.fn = "line"
  /\ <<TopCall.args[1], TopCall.args[2], TopCall.args[3], TopCall.args[4]>>
       = <<3, 2, 0, 0>>
  /\ \E i \in Direct(trace) : trace[i].fn = "hline"
  /\ \E i \in Direct(trace) : trace[i].fn = "pixel"

---------------------------------------------------------------------------
(* C11: line makes one call per maximal run of consecutive pixels with the *)
(* same perpendicular coordinate: a pixel call for a run of length 1, one  *)
(* hline (shallow) or vline (steep) call for a longer run; the runs are    *)
(* disjoint, their lengths sum to max(|dx|, |dy|) + 1 and there are at     *)
(* most min(|dx|, |dy|) + 1 calls.  line(0,0,5,0,c) is one hline of length *)
(* 6, line(0,0,5,5,c) is 6 pixel calls.                                    *)

\* length of the run a pixel / hline / vline call draws
RunLength(e) == IF e.fn = "pixel" THEN 1 ELSE e.args[3]

\* coordinate of the run along the line's major axis, and across it
RunStart(e, steep) == IF steep THEN e.args[2] ELSE e.args[1]
RunAcross(e, steep) == IF steep THEN e.args[1] ELSE e.args[2]

C11_LineRuns ==
  TopCall.fn = "line" =>
    LET a == TopCall.args
        adx == abs(a[3] - a[1])
        ady == abs(a[4] - a[2])
        steep == ady > adx
        calls == Direct(trace)
        n == Cardinality(calls)
        run(k) == trace[Nth(calls, k)]
        LengthAt(i) == IF i \in calls THEN RunLength(trace[i]) ELSE 0
    IN /\ \A i \in calls :
            \/ trace[i].fn = "pixel"
            \/ /\ trace[i].fn = IF steep THEN "vline" ELSE "hline"
               /\ trace[i].args[3] > 1
       /\ \A i, j \in calls : i # j => Covers(trace[i]) \cap Covers(trace[j]) = {}
       /\ \A k \in 1..(n - 1) :
            /\ RunStart(run(k + 1), steep) = RunStart(run(k), steep) + RunLength(run(k))
            /\ RunAcross(run(k + 1), steep) # RunAcross(run(k), steep)
       /\ SumRange(LengthAt, 1, Len(trace)) = (IF adx > ady THEN adx ELSE ady) + 1
       /\ n <= (IF adx < ady THEN adx ELSE ady) + 1
       /\ <<a[1], a[2], a[3], a[4]>> = <<0, 0, 5, 0>> =>
            n = 1 /\ run(1).fn = "hline" /\ run(1).args = <<0, 0, 6, a[5]>>
       /\ <<a[1], a[2], a[3], a[4]>> = <<0, 0, 5, 5>> =>
            n = 6 /\ \A i \in calls : trace[i].fn = "pixel"

C11_Witness ==
  /\ TopCall.fn = "line"
  /\ <<TopCall.args[1], TopCall.args[2], TopCall.args[3], TopCall.args[4]>>
       = <<0, 0, 5, 0>>
  /\ \E i \in Direct(trace) : trace[i].fn = "hline" /\ trace[i].args[3] = 6

---------------------------------------------------------------------------
(* C12: for every r >= 0, circle first makes a pixel call for each of the  *)
(* four axis points (xm, ym + r), (xm, ym - r), (xm + r, ym), (xm - r, ym) *)
(* and no pixel call is made for any of these four positions more than     *)
(* once during the whole call.                                              *)

\* the four axis points of a circle, in the order circle plots them
AxisPoints(xm, ym, r) ==
  << <<xm, ym + r>>, <<xm, ym - r>>, <<xm + r, ym>>, <<xm - r, ym>> >>

\* number of pixel calls the public method makes for position p
PlotCount(tr, p) ==
  Cardinality({i \in Direct(tr) :
                 tr[i].fn = "pixel" /\ <<tr[i].args[1], tr[i].args[2]>> = p})

C12_Original ==
  TopCall.fn = "circle" =>
    LET a == TopCall.args
        axis == AxisPoints(a[1], a[2], a[3])
        calls == Direct(trace)
    IN /\ Cardinality(calls) >= 4
       /\ \A k \in 1..4 :
            /\ trace[Nth(calls, k)].fn = "pixel"
            /\ <<trace[Nth(calls, k)].args[1], trace[Nth(calls, k)].args[2]>> = axis[k]
       /\ \A k \in 1..4 : PlotCount(trace, axis[k]) = 1

---------------------------------------------------------------------------
(* C13: the pixel set covered by the vertical spans fill_circle issues is  *)
(* symmetric about the centre: with (xm + a, ym + b) it contains           *)
(* (xm - a, ym + b), (xm + a, ym - b) and (xm - a, ym - b).                *)

\* the pixels covered by the calls the public method makes
Covered(tr) == UNION {Covers(tr[i]) : i \in Direct(tr)}

C13_FillCircleSymmetric ==
  TopCall.fn = "fill_circle" =>
    LET xm == TopCall.args[1]
        ym == TopCall.args[2]
        S == Covered(trace)
    IN /\ \A i \in Direct(trace) : trace[i].fn = "vline"
       /\ \A p \in S :
            /\ <<2 * xm - p[1], p[2]>> \in S
            /\ <<p[1], 2 * ym - p[2]>> \in S
            /\ <<2 * xm - p[1], 2 * ym - p[2]>> \in S

C13_Witness ==
  /\ TopCall.fn = "fill_circle"
  /\ TopCall.args[3] = MaxR
  /\ Cardinality(Direct(trace)) >= 9
  /\ \E p \in Covered(trace) : p[1] # TopCall.args[1] /\ p[2] # TopCall.args[2]

---------------------------------------------------------------------------
(* C14: set_window(x0, y0, x1, y1) issues column-address-set with the four *)
(* data bytes BE16(x0 + xstart), BE16(x1 + xstart), then row-address-set   *)
(* with BE16(y0 + ystart), BE16(y1 + ystart), then memory-write with no    *)
(* data, xstart and ystart being the offsets of the rotation in force.     *)
C14_SetWindow ==
  TopCall.fn = "set_window" =>
    LET a == TopCall.args
        cmds == Commands(trace)
        K(k) == Nth(cmds, k)
        writes == {i \in 1..Len(trace) : trace[i].op = "write"}
        entry == self.rot_tbl[self.rotation + 1]
    IN /\ Cardinality(cmds) = 3 /\ Cardinality(writes) = 5
       /\ [k \in 1..3 |-> Opcode(trace, K(k))] = <<CASET, RASET, RAMWR>>
       /\ \A k \in 1..3 : trace[K(k)].n = 1
       /\ LET d == NextWrite(trace, K(1))
          IN /\ IsData(trace, d) /\ d < K(2) /\ trace[d].n = 4
             /\ trace[d].pat = Be16(a[1] + entry[4]) \o Be16(a[3] + entry[4])
       /\ LET d == NextWrite(trace, K(2))
          IN /\ IsData(trace, d) /\ d < K(3) /\ trace[d].n = 4
             /\ trace[d].pat = Be16(a[2] + entry[5]) \o Be16(a[4] + entry[5])
       /\ \A i \in writes : i <= K(3)

C14_Witness ==
  /\ TopCall.fn = "set_window"
  /\ TopCall.args = <<5, 10, 239, 319>>
  /\ self.xstart = 80
  /\ \E i \in 1..Len(trace) : IsData(trace, i) /\ trace[i].pat = <<0, 85, 1, 63>>

---------------------------------------------------------------------------
(* C15: scroll(top, height, offset) programs the vertical-scroll           *)
(* definition with (top, height, panelHeight - top - height), panelHeight  *)
(* being the native panel height fixed at construction whatever the        *)
(* rotation, then the vertical-scroll address with offset, and changes no  *)
(* local state.                                                            *)

\* the native height of the panel: the height of its rotation-0 entry
PanelHeight(s) == s.rot_tbl[1][3]

C15_Step ==
  trace'[1].fn = "scroll" =>
    LET tr == trace'
        a == tr[1].args
        cmds == Commands(tr)
        K(k) == Nth(cmds, k)
    IN /\ self' = self
       /\ Cardinality(cmds) = 2
       /\ [k \in 1..2 |-> Opcode(tr, K(k))] = <<VSCRDEF, VSCSAD>>
       /\ LET d == NextWrite(tr, K(1))
          IN /\ IsData(tr, d) /\ d < K(2) /\ tr[d].n = 6
             /\ tr[d].pat = Be16(a[1]) \o Be16(a[2])
                            \o Be16(PanelHeight(self) - a[1] - a[2])
       /\ LET d == NextWrite(tr, K(2))
          IN IsData(tr, d) /\ tr[d].n = 2 /\ tr[d].pat = Be16(a[3])

C15_Original == [][C15_Step]_vars

---------------------------------------------------------------------------
(* C16: sleep_mode(enable) and inversion_mode(enable) each issue exactly   *)
(* one command byte and no data; the opcode issued for enable = True       *)
(* differs from the one issued for enable = False (sleep-out 0x11,         *)
(* inversion-off 0x20), and the stored inversion flag equals the last      *)
(* inversion command issued.                                               *)
C16_Original ==
  TopCall.fn \in {"sleep_mode", "inversion_mode"} =>
    LET enable == TopCall.args[1]
        writes == {i \in 1..Len(trace) : trace[i].op = "write"}
        off == IF TopCall.fn = "sleep_mode" THEN SLPOUT ELSE INVOFF
    IN /\ Cardinality(writes) = 1
       /\ \A i \in writes :
            /\ IsCommand(trace, i) /\ trace[i].n = 1
            /\ (~enable) => Opcode(trace, i) = off
            /\ enable => Opcode(trace, i) # off
       /\ TopCall.fn = "inversion_mode" => self.inversion = enable

---------------------------------------------------------------------------
(* C17: for every panel (width, height) given at construction and every    *)
(* rotation index, the active width and height equal the native ones at    *)
(* rotations 0 and 2 and are swapped at rotations 1 and 3.                 *)
C17_Original ==
  TopCall.fn = "__init__" =>
    LET w == TopCall.args[2]
        h == TopCall.args[3]
        Active(k) == IF k % 2 = 0 THEN <<w, h>> ELSE <<h, w>>
    IN /\ \A k \in 0..3 :
            <<self.rot_tbl[k + 1][2], self.rot_tbl[k + 1][3]>> = Active(k)
       /\ <<self.width, self.height>> = Active(self.rotation)

---------------------------------------------------------------------------
(* C18: text(s, x, y) with glyph size W x H first makes one                *)
(* fill_rect(x, y, W * len(s), H, bg), then for each character in string   *)
(* order exactly one blit: the i-th character (from 0) gets one window-set *)
(* for (x + i*W, y, x + i*W + W - 1, y + H - 1) followed by one data       *)
(* transaction of exactly W * H * 2 bytes.                                 *)

\* positions of the column-address-set commands, one per window-set
Windows(tr) == {i \in Commands(tr) : Opcode(tr, i) = CASET}

C18_Text ==
  TopCall.fn = "text" =>
    LET a == TopCall.args
        str == a[1]
        x == a[2]
        y == a[3]
        ft == IF a[4] = 1 THEN font1 ELSE IF a[4] = 2 THEN font2 ELSE font3
        W == ft.WIDTH
        H == ft.HEIGHT
        calls == Direct(trace)
        wins == Windows(trace)
    IN /\ Cardinality(calls) = 1 + Len(str)
       /\ trace[Nth(calls, 1)].fn = "fill_rect"
       /\ trace[Nth(calls, 1)].args = <<x, y, W * Len(str), H, a[6]>>
       /\ Cardinality(wins) = 1 + Len(str)
       /\ Cardinality(CallsOf(trace, "blit_buffer")) = Len(str)
       /\ \A i \in 0..(Len(str) - 1) :
            LET c == trace[Nth(calls, i + 2)]
                k == Nth(wins, i + 2)
                d1 == NextWrite(trace, k)
                r == NextWrite(trace, d1)
                d2 == NextWrite(trace, r)
                m == NextWrite(trace, d2)
                px == NextWrite(trace, m)
            IN /\ c.fn = "_draw_char" /\ c.args[1] = str[i + 1]
               /\ k > Nth(calls, i + 2)
               /\ i + 3 <= Cardinality(calls) => k < Nth(calls, i + 3)
               /\ trace[d1].pat = Be16(x + i * W + self.xstart)
                                  \o Be16(x + i * W + W - 1 + self.xstart)
               /\ trace[d2].pat = Be16(y + self.ystart) \o Be16(y + H - 1 + self.ystart)
               /\ Opcode(trace, r) = RASET /\ Opcode(trace, m) = RAMWR
               /\ DataAfter(trace, m) = 1
               /\ IsData(trace, px) /\ trace[px].n = W * H * 2

C18_Witness ==
  /\ TopCall.fn = "text"
  /\ Len(TopCall.args[1]) = 2
  /\ TopCall.args[4] = 2
  /\ Cardinality(Windows(trace)) = 3
  /\ \E i \in 1..Len(trace) : IsData(trace, i) /\ trace[i].n = 12

---------------------------------------------------------------------------
(* C19: color565(r, g, b) is pure and, for r, g, b in 0..255, returns the  *)
(* top 5 bits of r in bits 15..11, the top 6 bits of g in bits 10..5 and   *)
(* the top 5 bits of b in bits 4..0, without rounding; the result is in    *)
(* 0..0xFFFF and color565(0xF8, 0xFC, 0xF8) = 0xFFFF.                      *)
C19_Step ==
  trace'[1].fn = "color565" =>
    LET a == trace'[1].args
        v == trace'[2].value
    IN /\ self' = self
       /\ Len(trace') = 2 /\ trace'[2].op = "return"
       /\ v \in 0..65535
       /\ v \div 2048 = a[1] \div 8
       /\ (v \div 32) % 64 = a[2] \div 4
       /\ v % 32 = a[3] \div 8
       /\ a = <<248, 252, 248>> => v = 65535

C19_Color565 == [][C19_Step]_vars

C19_Witness ==
  /\ TopCall.fn = "color565"
  /\ TopCall.args = <<255, 7, 8>>
  /\ trace[2] = Return(63521)

---------------------------------------------------------------------------
(* C20: without mutual exclusion, a set_rotation of a second thread that   *)
(* runs between the bounds test of a pixel call and its window programming *)
(* leads to a state where the window is programmed with coordinates that   *)
(* were accepted for the old dimensions but lie outside the new active     *)
(* area, and with the new rotation's offsets (240x320 panel, rotation 0 to *)
(* 1, pixel(100, 300)); when the pixel call runs to completion with no     *)
(* other call inside it, no such state is reachable.                       *)

\* the pixel call of the trace has programmed its window
WindowProgrammed ==
  /\ TopCall.fn = "pixel"
  /\ frame = NoFrame
  /\ CallsOf(trace, "_set_window") # {}

\* the window the pixel call programmed lies outside the active area
OutsideActiveArea ==
  \E m \in CallsOf(trace, "_set_window") :
    ~(/\ 0 <= trace[m].args[1] /\ trace[m].args[1] < self.width
      /\ 0 <= trace[m].args[2] /\ trace[m].args[2] < self.height)

\* a set_rotation ran after the pixel call began and before its window
Preempted ==
  \E q \in CallsOf(trace, "set_rotation"), m \in CallsOf(trace, "_set_window") :
    1 < q /\ q < m

C20_RaceOnlyWhenPreempted ==
  WindowProgrammed =>
    /\ Cardinality(CallsOf(trace, "_set_window")) = 1
    /\ \A m \in CallsOf(trace, "_set_window") :
         LET a == trace[m].args
             c == NextWrite(trace, m)
             d1 == NextWrite(trace, c)
             d2 == NextWrite(trace, NextWrite(trace, d1))
         IN /\ Opcode(trace, c) = CASET
            /\ trace[d1].pat = Be16(a[1] + self.xstart) \o Be16(a[3] + self.xstart)
            /\ trace[d2].pat = Be16(a[2] + self.ystart) \o Be16(a[4] + self.ystart)
    /\ OutsideActiveArea => Preempted
    /\ CallsOf(trace, "set_rotation") = {} => ~OutsideActiveArea

C20_Witness ==
  /\ WindowProgrammed
  /\ self.rot_tbl = ROT_240x320
  /\ TopCall.args[1] = 100 /\ TopCall.args[2] = 300
  /\ \E q \in CallsOf(trace, "set_rotation") : trace[q].args = <<1>>
  /\ Preempted
  /\ self.rotation = 1 /\ self.height = 240
  /\ OutsideActiveArea
  /\ \E m \in CallsOf(trace, "_set_window") : trace[m].args = <<100, 300, 100, 300>>

---------------------------------------------------------------------------
(* C21: for every n >= 1, draw_poligon(center_x, center_y, r, n, ...)      *)
(* builds exactly 2n points, alternating a vertex and the bumped midpoint  *)
(* of the edge to the next vertex, and hands exactly those 2n points in    *)
(* order to the outline (or fill) routine.                                 *)
C21_Original ==
  TopCall.fn = "draw_poligon" =>
    LET a == TopCall.args
        n == a[4]
        off == poligon_offset(n, a[6])
        calls == Direct(trace)
    IN /\ Cardinality(calls) = 1
       /\ \A i \in calls :
            /\ trace[i].fn = IF a[8] THEN "fill_polygon" ELSE "polygon"
            /\ Len(trace[i].args[1]) = 2 * n
            /\ trace[i].args[1] = poligon_buf(a[1], a[2], a[3], n, off, a[5], n)

---------------------------------------------------------------------------
(* C22: chip select is high whenever no driver operation is in progress,   *)
(* from before the reset pulse on; every byte written by the constructor   *)
(* or a public operation is written while chip select is low, with the     *)
(* data/command line low for every opcode byte and high for every          *)
(* parameter or pixel byte; every select-assert is matched by a            *)
(* select-deassert before the operation returns.                           *)

\* number of parameter bytes of an opcode the driver sends (memory-write,
\* followed by the pixel stream, aside)
ParamLen(op) ==
  IF op \in {COLMOD, MADCTL} THEN 1
  ELSE IF op \in {CASET, RASET} THEN 4
  ELSE IF op = VSCRDEF THEN 6
  ELSE IF op = VSCSAD THEN 2
  ELSE 0

DriverOpcodes ==
  {SLPOUT, COLMOD, INVON, INVOFF, NORON, DISPON, MADCTL,
   CASET, RASET, RAMWR, VSCRDEF, VSCSAD}

\* the chip-select changes of the trace alternate, ending high
SelectMatched(tr) ==
  /\ \A i \in 1..Len(tr) :
       tr[i].op = "cs" =>
         LET k == LastCsBefore(tr, i)
         IN IF k = 0 THEN tr[i].v = (IF tr[1].fn = "__init__" THEN 1 ELSE 0)
            ELSE tr[i].v # tr[k].v
  /\ LET k == LastCsBefore(tr, Len(tr) + 1)
     IN k # 0 => tr[k].v = 1
  /\ \A i \in 1..Len(tr) : tr[i].op = "rst" => LastCsBefore(tr, i) # 0

\* the write at position i has the role its place in the command stream
\* gives it: an opcode, the parameters of the opcode before it, or pixels
RoleMatchesDc(tr, cmds, i) ==
  IF i \in cmds
  THEN LET op == Opcode(tr, i)
           nx == NextWrite(tr, i)
       IN /\ tr[i].n = 1 /\ op \in DriverOpcodes
          /\ ParamLen(op) > 0 => nx # 0 /\ nx \notin cmds /\ tr[nx].n = ParamLen(op)
          /\ (ParamLen(op) = 0 /\ op # RAMWR) => nx = 0 \/ nx \in cmds
  ELSE LET before == {j \in cmds : j < i}
       IN /\ IsData(tr, i)
          /\ before # {}
          /\ LET c == CHOOSE j \in before : \A k \in before : k <= j
             IN IF Opcode(tr, c) = RAMWR THEN tr[i].n % 2 = 0 /\ tr[i].n > 0
                ELSE NextWrite(tr, c) = i

C22_SelectFraming ==
  LET cmds == Commands(trace)
  IN /\ SelectMatched(trace)
     /\ \A i \in 1..Len(trace) :
          trace[i].op = "write" =>
            /\ Bracket(trace, i) # 0
            /\ \E k \in Bracket(trace, i)..(i - 1) : trace[k].op = "dc"
            /\ RoleMatchesDc(trace, cmds, i)

C22_Witness ==
  /\ TopCall.fn = "scroll"
  /\ self.rotation = 3
  /\ Cardinality({i \in 1..Len(trace) : trace[i].op = "cs"}) = 8
  /\ Cardinality(Commands(trace)) = 2
  /\ trace[Len(trace)] = CsValue(1)

---------------------------------------------------------------------------
(* C23: for every radius r >= 0 and the same centre, every pixel position  *)
(* circle(xm, ym, r, c) passes to pixel is covered by a vertical span of   *)
(* fill_circle(xm, ym, r, c); every span of fill_circle is vertically      *)
(* centred on ym with odd length; fill_circle emits the centre span        *)
(* vline(xm, ym - r, 2r + 1) first and then exactly four spans per loop    *)
(* step.                                                                   *)

\* the positions circle(xm, ym, r, c) passes to pixel
CirclePoints(s, xm, ym, r, c) ==
  LET tr == circle(s, xm, ym, r, c)
  IN {<<tr[i].args[1], tr[i].args[2]>> : i \in Direct(tr)}

\* the number of steps the loop of circle(xm, ym, r, c) takes
CircleSteps(s, xm, ym, r, c) ==
  (Cardinality(Direct(circle(s, xm, ym, r, c))) - 4) \div 8

C23_FillCoversCircle ==
  TopCall.fn = "fill_circle" =>
    LET a == TopCall.args
        calls == Direct(trace)
    IN /\ CirclePoints(self, a[1], a[2], a[3], a[4]) \subseteq Covered(trace)
       /\ \A i \in calls :
            /\ trace[i].fn = "vline"
            /\ trace[i].args[3] % 2 = 1
            /\ 2 * (a[2] - trace[i].args[2]) + 1 = trace[i].args[3]
       /\ trace[2].depth = 1
       /\ trace[2].args = <<a[1], a[2] - a[3], 2 * a[3] + 1, a[4]>>
       /\ Cardinality(calls) = 1 + 4 * CircleSteps(self, a[1], a[2], a[3], a[4])

C23_Witness ==
  /\ TopCall.fn = "fill_circle"
  /\ TopCall.args[3] = MaxR
  /\ CircleSteps(self, TopCall.args[1], TopCall.args[2], MaxR, MAGENTA) = 2
  /\ Cardinality(CirclePoints(self, TopCall.args[1], TopCall.args[2], MaxR, MAGENTA)) >= 12
  /\ CirclePoints(self, TopCall.args[1], TopCall.args[2], MaxR, MAGENTA)
       \subseteq Covered(trace)

---------------------------------------------------------------------------
(* C24: line is symmetric in its endpoints: line(x0, y0, x1, y1, c) and    *)
(* line(x1, y1, x0, y0, c) emit the identical sequence of pixel / hline /  *)
(* vline calls: same calls, same arguments, same order.                    *)

\* the calls a public method makes itself, in order
DirectCalls(tr) ==
  LET calls == Direct(tr)
  IN [k \in 1..Cardinality(calls) |-> tr[Nth(calls, k)]]

C24_LineSymmetric ==
  TopCall.fn = "line" =>
    LET a == TopCall.args
        back == line(self, a[3], a[4], a[1], a[2], a[5])
    IN /\ DirectCalls(trace) = DirectCalls(back)
       /\ Tail(trace) = Tail(back)

C24_Witness ==
  /\ TopCall.fn = "line"
  /\ <<TopCall.args[1], TopCall.args[2], TopCall.args[3], TopCall.args[4]>>
       = <<3, 0, 0, 2>>
  /\ Len(DirectCalls(trace)) = 3
  /\ DirectCalls(trace) = DirectCalls(line(self, 0, 2, 3, 0, TopCall.args[5]))

---------------------------------------------------------------------------
(* C25: for an Encoder in RANGE_WRAP or RANGE_BOUNDED mode constructed     *)
(* with min_val <= max_val, after any sequence of pin-change events and    *)
(* reset() calls the stored value is within [min_val, max_val]; in bounded *)
(* mode a step past a bound leaves the value at that bound, in wrap mode a *)
(* step continues from the other bound:                                    *)
(* value' = min_val + ((value + step - min_val) mod (max_val - min_val + 1)). *)

\* the step the pin reading of this transition decoded
DecodedStep ==
  LET d == BitAnd(self'.state, DIR_MASK)
  IN (IF d = DIR_CW THEN self.incr ELSE IF d = DIR_CCW THEN -self.incr ELSE 0)
     * self.reverse

\* this transition read the pins
PinsRead == \E i \in 1..Len(trace') : trace'[i].op = "pins"

C25_Step ==
  (self.range_mode \in {RANGE_WRAP, RANGE_BOUNDED} /\ self.min_val <= self.max_val) =>
    /\ self'.value \in self.min_val..self.max_val
    /\ (PinsRead /\ self.range_mode = RANGE_BOUNDED) =>
         self'.value = (IF self.value + DecodedStep > self.max_val THEN self.max_val
                        ELSE IF self.value + DecodedStep < self.min_val THEN self.min_val
                        ELSE self.value + DecodedStep)
    /\ (PinsRead /\ self.range_mode = RANGE_WRAP) =>
         self'.value = self.min_val
                       + ((self.value + DecodedStep - self.min_val)
                          % (self.max_val - self.min_val + 1))

C25_Original == [][C25_Step]_vars

---------------------------------------------------------------------------
(* C26: in full-step mode, from the rest state, the value changes and the  *)
(* listeners are called only on the pin reading that completes a full      *)
(* quadrature cycle in order: the clk/dt phases 10, 00, 01, 11 give one     *)
(* +incr step, 01, 00, 10, 11 one -incr step (times the reverse sign); a    *)
(* pin sequence that returns to 11 without having passed the three          *)
(* intermediate phases in that order changes nothing, and reading           *)
(* unchanged pins again after a step never counts the step twice.           *)

\* the clk/dt phases read so far, in order
Phases(tr) ==
  LET reads == {i \in 1..Len(tr) : tr[i].op = "pins"}
  IN [k \in 1..Cardinality(reads) |->
        2 * tr[Nth(reads, k)].clk + tr[Nth(reads, k)].dt]

\* the phases read since the pins last read 11
SinceRest(ph) ==
  LET rests == {k \in 1..Len(ph) : ph[k] = 3}
      last == IF rests = {} THEN 0 ELSE CHOOSE k \in rests : \A j \in rests : j <= k
  IN SubSeq(ph, last + 1, Len(ph))

\* the phases a, b, c occur in seg in that order
InOrder(seg, a, b, c) ==
  \E i, j, k \in 1..Len(seg) :
    i < j /\ j < k /\ seg[i] = a /\ seg[j] = b /\ seg[k] = c

\* the value after a step of s, by the range mode
Stepped(s, step) ==
  IF s.range_mode = RANGE_WRAP
  THEN s.min_val + ((s.value + step - s.min_val) % (s.max_val - s.min_val + 1))
  ELSE IF s.range_mode = RANGE_BOUNDED
  THEN (IF s.value + step > s.max_val THEN s.max_val
        ELSE IF s.value + step < s.min_val THEN s.min_val ELSE s.value + step)
  ELSE s.value + step

\* the listener calls of this transition
ListenerCalls ==
  {i \in (Len(trace) + 1)..Len(trace') : trace'[i].op = "listener"}

C26_Step ==
  (\E i \in (Len(trace) + 1)..Len(trace') : trace'[i].op = "pins") =>
    LET before == Phases(trace)
        ph == Phases(trace')
        p == ph[Len(ph)]
        seg == SinceRest(before)
        cw == seg = <<2, 0, 1>> /\ p = 3
        ccw == seg = <<1, 0, 2>> /\ p = 3
        unchanged == /\ self'.value = self.value
                     /\ ListenerCalls = {}
                     /\ self'.direction = self.direction
    IN /\ cw => /\ self'.value = Stepped(self, self.incr * self.reverse)
                /\ self'.direction = 1
                /\ Cardinality(ListenerCalls) = Len(self.listener)
       /\ ccw => /\ self'.value = Stepped(self, -self.incr * self.reverse)
                 /\ self'.direction = -1
                 /\ Cardinality(ListenerCalls) = Len(self.listener)
       /\ ~(p = 3 /\ (InOrder(seg, 2, 0, 1) \/ InOrder(seg, 1, 0, 2))) => unchanged
       /\ (before # <<>> /\ p = before[Len(before)]) => unchanged

C26_FullStep == [][C26_Step]_vars

C26_Witness ==
  /\ Phases(trace) = <<2, 0, 1, 3, 3>>
  /\ self.listener # <<>>
  /\ self.reverse = -1
  /\ self.value = self.max_val
  /\ self.direction = 1
  /\ Cardinality({i \in 1..Len(trace) : trace[i].op = "listener"}) = 1

====
